---- MODULE Spec2Model ----
(***************************************************************************)
(* Configuration resolution pipeline of cagent (src/config.go, lines 1 to  *)
(* 613): defaults, file merge, deprecated-key migration, environment       *)
(* overlay, bootstrap file generation and validation.                      *)
(*                                                                         *)
(* Representation.                                                         *)
(*  - A Go pointer or error is an option: <<>> is nil, <<x>> is non-nil.   *)
(*    An error is the tuple <<prefix, detail>> of its message.             *)
(*  - A float64 field holds an integer-valued float; the TOML type of a    *)
(*    literal (integer or float) is kept in the value's tag.               *)
(*  - A string the code inspects character by character                    *)
(*    (net_interface_max_speed, hub_proxy, the spool directory of jobmon)  *)
(*    is a tuple of one-character strings.                                 *)
(*  - A file is a sequence of lines; a write at offset 0 replaces the      *)
(*    leading lines and leaves the rest (no O_TRUNC in the code).          *)
(*  - Config keeps every field that a validation rule, an OS branch of     *)
(*    NewConfig, the environment or the bootstrap touches, and a few of   *)
(*    the plain ones; the remaining plain fields behave like HubGzip.      *)
(***************************************************************************)
EXTENDS Integers, Sequences, FiniteSets, TLC

\* ------------------------------------------------------------ constants

IOModeFile == "file"
IOModeHTTP == "http"

OperationModeFull == "full"
OperationModeMinimal == "minimal"
OperationModeHeartbeat == "heartbeat"

minIntervalValue == 30
minHeartbeatIntervalValue == 5

minHubRequestTimeout == 1
maxHubRequestTimeout == 600

minSystemUpdatesCheckInterval == 300
minSelfUpdatesCheckInterval == 600

operationModes == <<OperationModeFull, OperationModeMinimal, OperationModeHeartbeat>>

\* The three lines of configAutogeneratedHeadline: two comments and a blank.
configAutogeneratedHeadline ==
    << [kind |-> "comment", k |-> "This is an auto-generated config to connect with the cloudradar service",
        t |-> "", n |-> 0, w |-> 0, s |-> "", b |-> FALSE, q |-> <<>>],
       [kind |-> "comment", k |-> "To see all options of cagent run cagent -p",
        t |-> "", n |-> 0, w |-> 0, s |-> "", b |-> FALSE, q |-> <<>>],
       [kind |-> "blank", k |-> "", t |-> "", n |-> 0, w |-> 0, s |-> "", b |-> FALSE, q |-> <<>>] >>

\* --------------------------------------------------------------- options

Nil == <<>>
Some(x) == <<x>>
Err(prefix, detail) == <<prefix, detail>>

\* ------------------------------------------------------ operating systems

GOOSValues == {"linux", "windows", "darwin"}

\* defaultLogPath as init() computes it; the executable's directory and
\* $HOME are opaque.
defaultLogPath(os) ==
    CASE os = "windows" -> "<exedir>\\cagent.log"
      [] os = "darwin" -> "<HOME>/.cagent/cagent.log"
      [] OTHER -> "/var/log/cagent/cagent.log"

\* The OS null device NewMinimumConfig writes to out_file.
NullDevice(os) == IF os = "windows" THEN "NUL" ELSE "/dev/null"

\* --------------------------------------------------------------- defaults

LogLevelError == "error"
SelfUpdatesFeedURL == "<self-updates-feed>"

defaultMinValuableConfig ==
    [LogLevel |-> LogLevelError, IOMode |-> IOModeHTTP, OutFile |-> "",
     HubURL |-> "", HubUser |-> "", HubPassword |-> ""]

NewConfigBase(os) ==
    [LogFile |-> defaultLogPath(os),
     PidFile |-> "",
     OperationMode |-> OperationModeFull,
     Interval |-> 90,
     HeartbeatInterval |-> 15,
     HubGzip |-> TRUE,
     HubRequestTimeout |-> [n |-> 30, w |-> 0],
     HubProxy |-> <<>>,
     CPULoadDataGather |-> <<"avg1">>,
     CPUUtilTypes |-> <<"user", "system", "idle", "iowait">>,
     FSMetrics |-> <<"free_B", "free_percent", "total_B", "read_B_per_s",
                     "write_B_per_s", "read_ops_per_s", "write_ops_per_s">>,
     NetInterfaceExcludeRegex |-> <<"^vnet(.*)$", "^virbr(.*)$", "^vmnet(.*)$", "^vEthernet(.*)$">>,
     NetInterfaceMaxSpeed |-> <<>>,
     VirtualMachinesStat |-> <<>>,
     JobMonitoring |-> [RecordStdErr |-> TRUE, RecordStdOut |-> FALSE,
                        Severity |-> "alert",
                        SpoolDirPath |->
                          << "/", "v", "a", "r", "/", "l", "i", "b", "/",
                             "c", "a", "g", "e", "n", "t", "/", "j", "o", "b", "m", "o", "n" >>],
     SystemUpdatesChecks |-> [Enabled |-> TRUE, FetchTimeout |-> 30, CheckInterval |-> 14400],
     MysqlMonitoring |-> "zero",
     Updates |-> [Enabled |-> FALSE, URL |-> "", CheckInterval |-> 21600],
     OnHTTP5xxRetries |-> [n |-> 4, w |-> 0],
     OnHTTP5xxRetryInterval |-> 2,
     MinValuableConfig |-> defaultMinValuableConfig]

NewConfig(os) ==
    LET cfg == NewConfigBase(os) IN
    CASE os = "windows" ->
           [cfg EXCEPT !.NetInterfaceExcludeRegex = Append(@, "Pseudo-Interface"),
                       !.CPULoadDataGather = <<>>,
                       !.CPUUtilTypes = <<"user", "system", "idle">>,
                       !.VirtualMachinesStat = <<"hyper-v">>,
                       !.JobMonitoring.SpoolDirPath =
                          << "C", ":", "\\", "P", "r", "o", "g", "r", "a", "m", "D", "a", "t", "a",
                             "\\", "c", "a", "g", "e", "n", "t", "\\", "j", "o", "b", "m", "o", "n" >>,
                       !.Updates.Enabled = TRUE,
                       !.Updates.URL = SelfUpdatesFeedURL]
      [] os = "darwin" ->
           [cfg EXCEPT !.JobMonitoring.SpoolDirPath =
                  << "/", "u", "s", "r", "/", "l", "o", "c", "a", "l", "/",
                     "v", "a", "r", "/", "l", "i", "b", "/",
                     "c", "a", "g", "e", "n", "t", "/", "j", "o", "b", "m", "o", "n" >>]
      [] OTHER ->
           [cfg EXCEPT !.FSMetrics = Append(@, "inodes_used_percent")]

\* ------------------------------------------------------------ environment

\* An environment maps each variable to <<>> (unset) or <<value>> (set, the
\* value possibly empty): os.LookupEnv.
EnvNames == {"CAGENT_HUB_URL", "CAGENT_HUB_USER", "CAGENT_HUB_PASSWORD"}

LookupEnv(e, name) == e[name]

\* The environment with none of the variables set.
NoEnv == [n \in EnvNames |-> Nil]

\* One field of applyEnv: `cur` is the field, `look` the LookupEnv result.
\* applyEnv's field rule without the force argument.
applyEnvFieldNoForce(cur, look, force) ==
    IF look # Nil /\ cur = "" THEN look[1] ELSE cur

applyEnvField(cur, look, force) ==
    IF look # Nil /\ ((cur = "") \/ force) THEN look[1] ELSE cur

applyEnv(mvc, e, force) ==
    [mvc EXCEPT !.HubURL = applyEnvField(@, LookupEnv(e, "CAGENT_HUB_URL"), force),
                !.HubUser = applyEnvField(@, LookupEnv(e, "CAGENT_HUB_USER"), force),
                !.HubPassword = applyEnvField(@, LookupEnv(e, "CAGENT_HUB_PASSWORD"), force)]

\* NewMinimumConfig without the inference of the I/O mode.
NewMinimumConfigNoInfer(e, os) ==
    applyEnv(defaultMinValuableConfig, e, FALSE)

NewMinimumConfig(e, os) ==
    LET cfg == applyEnv(defaultMinValuableConfig, e, FALSE) IN
    IF cfg.HubURL = ""
    THEN [cfg EXCEPT !.IOMode = IOModeFile, !.OutFile = NullDevice(os)]
    ELSE [cfg EXCEPT !.IOMode = IOModeHTTP]

\* ------------------------------------------------------------ file lines

(* A line of a config file.  kind is "key" (key = value), "comment" (a     *)
(* comment; for a field the encoder writes commented out, k is its key and *)
(* the value fields hold its value), "blank", or "garbage" (text that is   *)
(* not TOML).  A key of a table is written with its table:                 *)
(* "system_updates_checks.enabled".  The value has TOML type t: "int"      *)
(* (the integer w * 2^32 + n, 0 <= n < 2^31 when w > 0), "float" (n),      *)
(* "bool" (b), "str" (s, or the characters q of an inspected string).      *)
(* A field of Go type int (64 bits wide on the builds modelled) holds the   *)
(* integer the same way, as [n, w] with w >= 0.                            *)
Line(kind, k, t, n, w, s, b, q) ==
    [kind |-> kind, k |-> k, t |-> t, n |-> n, w |-> w, s |-> s, b |-> b, q |-> q]

IntLine(k, n) == Line("key", k, "int", n, 0, "", FALSE, <<>>)
WideIntLine(k, w, n) == Line("key", k, "int", n, w, "", FALSE, <<>>)
FloatLine(k, n) == Line("key", k, "float", n, 0, "", FALSE, <<>>)
BoolLine(k, b) == Line("key", k, "bool", 0, 0, "", b, <<>>)
StrLine(k, s) == Line("key", k, "str", 0, 0, s, FALSE, <<>>)
PiecesLine(k, q) == Line("key", k, "str", 0, 0, "", FALSE, q)
CommentedStrLine(k, s) == Line("comment", k, "str", 0, 0, s, FALSE, <<>>)
DocLine(k) == Line("comment", k, "", 0, 0, "", FALSE, <<>>)
GarbageLine == Line("garbage", "", "", 0, 0, "", FALSE, <<>>)

DeprecatedKey == "windows_updates_watcher_interval"

(* The Go kind of the Config field a key names, by the toml tags of Config  *)
(* and of its nested structs; "" for a key Config does not have.  "chars"  *)
(* is a string field kept character by character, "strings" a []string,    *)
(* "table" a nested struct.  A key of a table is written only for the      *)
(* tables whose struct src/config.go declares.                             *)
KeyKind(k) ==
    CASE k \in {"operation_mode", "pid", "log", "log_syslog", "log_level", "io_mode",
                "out_file", "hub_url", "hub_user", "hub_password", "hub_proxy_user",
                "hub_proxy_password", "smartctl", "cpu_utilisation_analysis.function",
                "cpu_utilisation_analysis.metric",
                "cpu_utilisation_analysis.gathering_mode", "logs.hub_file",
                "storcli.binary", "jobmon.severity", "self_update.url"} -> "string"
      [] k \in {"hub_proxy", "net_interface_max_speed", "jobmon.spool_dir"} -> "chars"
      [] k \in {"interval", "heartbeat", "on_http_5xx_retry_interval",
                "cpu_utilisation_analysis.threshold"} -> "float64"
      [] k \in {"hub_request_timeout", "on_http_5xx_retries",
                "cpu_utilisation_analysis.report_processes",
                "cpu_utilisation_analysis.trailing_process_analysis_minutes"} -> "int"
      [] k \in {"system_updates_checks.fetch_timeout", "system_updates_checks.check_interval",
                "self_update.check_interval"} -> "uint32"
      [] k \in {"hub_gzip", "fs_path_exclude_recurse", "fs_identify_mountpoints_by_device",
                "net_interface_exclude_disconnected", "net_interface_exclude_loopback",
                "hardware_inventory", "discover_autostarting_services_only",
                "temperature_monitoring", "software_raid_monitoring", "smart_monitoring",
                "mem_monitoring", "cpu_monitoring", "fs_monitoring", "net_monitoring",
                "jobmon.record_stderr", "jobmon.record_stdout",
                "system_updates_checks.enabled", "self_update.enabled",
                "docker_monitoring.enabled"} -> "bool"
      [] k \in {"cpu_load_data_gathering_mode", "cpu_utilisation_gathering_mode",
                "cpu_utilisation_types", "fs_type_include", "fs_path_exclude",
                "fs_metrics", "net_interface_exclude", "net_interface_exclude_regex",
                "net_metrics", "system_fields", "virtual_machines_stat"} -> "strings"
      [] k \in {"cpu_utilisation_analysis", "logs", "storcli", "jobmon",
                "system_updates_checks", "mysql_monitoring", "process_monitoring",
                "self_update", "docker_monitoring"} -> "table"
      [] OTHER -> ""

\* The keys whose fields this Config keeps.
ConfigKeys ==
    {"operation_mode", "pid", "log", "log_level", "io_mode", "out_file",
     "hub_url", "hub_user", "hub_password",
     "jobmon.severity", "self_update.url",
     "hub_proxy", "net_interface_max_speed", "jobmon.spool_dir",
     "interval", "heartbeat", "on_http_5xx_retry_interval",
     "hub_request_timeout", "on_http_5xx_retries",
     "system_updates_checks.fetch_timeout", "system_updates_checks.check_interval",
     "self_update.check_interval",
     "hub_gzip", "jobmon.record_stderr", "jobmon.record_stdout",
     "system_updates_checks.enabled", "self_update.enabled"}

\* The value of the field a key names, as a line value (for comparison).
Get(cfg, k) ==
    CASE k = "operation_mode" -> StrLine(k, cfg.OperationMode)
      [] k = "pid" -> StrLine(k, cfg.PidFile)
      [] k = "log" -> StrLine(k, cfg.LogFile)
      [] k = "log_level" -> StrLine(k, cfg.MinValuableConfig.LogLevel)
      [] k = "io_mode" -> StrLine(k, cfg.MinValuableConfig.IOMode)
      [] k = "out_file" -> StrLine(k, cfg.MinValuableConfig.OutFile)
      [] k = "hub_url" -> StrLine(k, cfg.MinValuableConfig.HubURL)
      [] k = "hub_user" -> StrLine(k, cfg.MinValuableConfig.HubUser)
      [] k = "hub_password" -> StrLine(k, cfg.MinValuableConfig.HubPassword)
      [] k = "jobmon.spool_dir" -> PiecesLine(k, cfg.JobMonitoring.SpoolDirPath)
      [] k = "jobmon.severity" -> StrLine(k, cfg.JobMonitoring.Severity)
      [] k = "self_update.url" -> StrLine(k, cfg.Updates.URL)
      [] k = "hub_proxy" -> PiecesLine(k, cfg.HubProxy)
      [] k = "net_interface_max_speed" -> PiecesLine(k, cfg.NetInterfaceMaxSpeed)
      [] k = "interval" -> FloatLine(k, cfg.Interval)
      [] k = "heartbeat" -> FloatLine(k, cfg.HeartbeatInterval)
      [] k = "on_http_5xx_retry_interval" -> FloatLine(k, cfg.OnHTTP5xxRetryInterval)
      [] k = "hub_request_timeout" ->
           WideIntLine(k, cfg.HubRequestTimeout.w, cfg.HubRequestTimeout.n)
      [] k = "on_http_5xx_retries" ->
           WideIntLine(k, cfg.OnHTTP5xxRetries.w, cfg.OnHTTP5xxRetries.n)
      [] k = "system_updates_checks.fetch_timeout" -> IntLine(k, cfg.SystemUpdatesChecks.FetchTimeout)
      [] k = "system_updates_checks.check_interval" -> IntLine(k, cfg.SystemUpdatesChecks.CheckInterval)
      [] k = "self_update.check_interval" -> IntLine(k, cfg.Updates.CheckInterval)
      [] k = "hub_gzip" -> BoolLine(k, cfg.HubGzip)
      [] k = "jobmon.record_stderr" -> BoolLine(k, cfg.JobMonitoring.RecordStdErr)
      [] k = "jobmon.record_stdout" -> BoolLine(k, cfg.JobMonitoring.RecordStdOut)
      [] k = "system_updates_checks.enabled" -> BoolLine(k, cfg.SystemUpdatesChecks.Enabled)
      [] k = "self_update.enabled" -> BoolLine(k, cfg.Updates.Enabled)

\* The decoder's assignment of one well-typed key line to its field; a key
\* Config does not have is ignored, and so is a field this Config leaves out.
Set(cfg, l) ==
    LET k == l.k IN
    CASE k = "operation_mode" -> [cfg EXCEPT !.OperationMode = l.s]
      [] k = "pid" -> [cfg EXCEPT !.PidFile = l.s]
      [] k = "log" -> [cfg EXCEPT !.LogFile = l.s]
      [] k = "log_level" -> [cfg EXCEPT !.MinValuableConfig.LogLevel = l.s]
      [] k = "io_mode" -> [cfg EXCEPT !.MinValuableConfig.IOMode = l.s]
      [] k = "out_file" -> [cfg EXCEPT !.MinValuableConfig.OutFile = l.s]
      [] k = "hub_url" -> [cfg EXCEPT !.MinValuableConfig.HubURL = l.s]
      [] k = "hub_user" -> [cfg EXCEPT !.MinValuableConfig.HubUser = l.s]
      [] k = "hub_password" -> [cfg EXCEPT !.MinValuableConfig.HubPassword = l.s]
      [] k = "jobmon.spool_dir" -> [cfg EXCEPT !.JobMonitoring.SpoolDirPath = l.q]
      [] k = "jobmon.severity" -> [cfg EXCEPT !.JobMonitoring.Severity = l.s]
      [] k = "self_update.url" -> [cfg EXCEPT !.Updates.URL = l.s]
      [] k = "hub_proxy" -> [cfg EXCEPT !.HubProxy = l.q]
      [] k = "net_interface_max_speed" -> [cfg EXCEPT !.NetInterfaceMaxSpeed = l.q]
      [] k = "interval" -> [cfg EXCEPT !.Interval = l.n]
      [] k = "heartbeat" -> [cfg EXCEPT !.HeartbeatInterval = l.n]
      [] k = "on_http_5xx_retry_interval" -> [cfg EXCEPT !.OnHTTP5xxRetryInterval = l.n]
      [] k = "hub_request_timeout" -> [cfg EXCEPT !.HubRequestTimeout = [n |-> l.n, w |-> l.w]]
      [] k = "on_http_5xx_retries" -> [cfg EXCEPT !.OnHTTP5xxRetries = [n |-> l.n, w |-> l.w]]
      [] k = "system_updates_checks.fetch_timeout" -> [cfg EXCEPT !.SystemUpdatesChecks.FetchTimeout = l.n]
      [] k = "system_updates_checks.check_interval" -> [cfg EXCEPT !.SystemUpdatesChecks.CheckInterval = l.n]
      [] k = "self_update.check_interval" -> [cfg EXCEPT !.Updates.CheckInterval = l.n]
      [] k = "hub_gzip" -> [cfg EXCEPT !.HubGzip = l.b]
      [] k = "jobmon.record_stderr" -> [cfg EXCEPT !.JobMonitoring.RecordStdErr = l.b]
      [] k = "jobmon.record_stdout" -> [cfg EXCEPT !.JobMonitoring.RecordStdOut = l.b]
      [] k = "system_updates_checks.enabled" -> [cfg EXCEPT !.SystemUpdatesChecks.Enabled = l.b]
      [] k = "self_update.enabled" -> [cfg EXCEPT !.Updates.Enabled = l.b]
      [] OTHER -> cfg

\* ---------------------------------------------------------- TOML decoding

Range(seq) == {seq[i] : i \in 1..Len(seq)}

KeyIndices(content) == {i \in 1..Len(content) : content[i].kind = "key"}

PresentKeys(content) == {content[i].k : i \in KeyIndices(content)}

\* The parse of the document, before any field is assigned: text that is
\* not TOML, or a key defined twice, fails it.
SyntaxOK(content) ==
    /\ \A i \in 1..Len(content) : content[i].kind # "garbage"
    /\ \A i, j \in KeyIndices(content) : content[i].k = content[j].k => i = j

\* Whether the decoder can load the line's value into the field of its key.
WellTyped(l) ==
    LET kind == KeyKind(l.k) IN
    CASE kind = "" -> TRUE
      [] kind \in {"string", "chars"} -> l.t = "str"
      [] kind \in {"strings", "table"} -> FALSE
      [] kind = "float64" -> l.t = "float"
      [] kind = "int" -> l.t = "int"
      [] kind = "uint32" -> l.t = "int" /\ l.w = 0 /\ l.n >= 0
      [] kind = "bool" -> l.t = "bool"

IntIntoFloatMsg == "cannot load TOML value of type int64 into a Go float"

BadTypeMsg(l) ==
    IF KeyKind(l.k) = "float64" /\ l.t = "int" THEN IntIntoFloatMsg
    ELSE IF KeyKind(l.k) = "uint32" /\ l.t = "int" THEN "value is out of range for uint32"
    ELSE "cannot load TOML value into the Go type of the field"

RECURSIVE ApplyFrom(_, _, _, _)
ApplyFrom(cfg, content, S, i) ==
    IF i > Len(content) THEN cfg
    ELSE ApplyFrom(IF i \in S THEN Set(cfg, content[i]) ELSE cfg, content, S, i + 1)

\* A decode into a fresh Config instead of the one passed in.
DecodeConfigFresh(cfg, content) ==
    IF ~SyntaxOK(content)
    THEN {[cfg |-> cfg, err |-> Err("toml", "syntax error")]}
    ELSE LET bad == {i \in KeyIndices(content) : ~WellTyped(content[i])}
             good == KeyIndices(content) \ bad
         IN {[cfg |-> ApplyFrom(NewConfig("linux"), content, good, 1),
              err |-> IF bad = {} THEN Nil ELSE Err("toml", "type")]}

(* toml.DecodeReader(cfgFile, cfg): the outcomes [cfg, err].  The decoder   *)
(* assigns the keys of a table in Go map order, so when a value does not   *)
(* fit its field the keys already assigned are some of the well-typed      *)
(* ones: every subset is allowed here (a superset of the orders a nested   *)
(* table permits).                                                         *)
DecodeConfig(cfg, content) ==
    IF ~SyntaxOK(content)
    THEN {[cfg |-> cfg, err |-> Err("toml", "syntax error")]}
    ELSE LET bad == {i \in KeyIndices(content) : ~WellTyped(content[i])}
             good == KeyIndices(content) \ bad
         IN IF bad = {}
            THEN {[cfg |-> ApplyFrom(cfg, content, good, 1), err |-> Nil]}
            ELSE {[cfg |-> ApplyFrom(cfg, content, S, 1),
                   err |-> Err("toml", BadTypeMsg(content[i]))] :
                     S \in SUBSET good, i \in bad}

\* ConfigDeprecated's zero value: the integer w * 2^32 + n.
ZeroDeprecated == [n |-> 0, w |-> 0]

\* toml.DecodeReader(cfgFile, &deprecatedCfg) of a document that parses:
\* [dep, err, defined], defined being meta.IsDefined of the deprecated key.
DecodeDeprecated(content) ==
    LET at == {i \in KeyIndices(content) : content[i].k = DeprecatedKey} IN
    IF at = {} THEN [dep |-> ZeroDeprecated, err |-> Nil, defined |-> FALSE]
    ELSE LET l == content[CHOOSE i \in at : TRUE] IN
         IF l.t = "int"
         THEN [dep |-> [n |-> l.n, w |-> l.w], err |-> Nil, defined |-> TRUE]
         ELSE [dep |-> ZeroDeprecated,
               err |-> Err("toml", "cannot load TOML value into the Go type of the field"),
               defined |-> TRUE]

\* uint32(v) of the Go int v = w * 2^32 + n, for 0 <= n < 2^31.
Uint32(v) == v.n

\* v <= 0 for the Go int v = w * 2^32 + n.
NonPositive(v) == v.w = 0 /\ v.n <= 0

\* v < k for the Go int v = w * 2^32 + n and a k below 2^31.
IntLess(v, k) == v.w = 0 /\ v.n < k

\* --------------------------------------------------------------- migrate

\* A migration driven by the decoded value instead of the key's presence.
migrateByValue(cfg, dep, defined, os) ==
    IF os = "windows" /\ ~NonPositive(dep)
    THEN [cfg EXCEPT !.SystemUpdatesChecks.CheckInterval = Uint32(dep)]
    ELSE cfg

migrate(cfg, dep, defined, os) ==
    IF os = "windows" /\ defined
    THEN IF NonPositive(dep)
         THEN [cfg EXCEPT !.SystemUpdatesChecks.Enabled = FALSE]
         ELSE [cfg EXCEPT !.SystemUpdatesChecks.CheckInterval = Uint32(dep)]
    ELSE cfg

\* ----------------------------------------------------------- file system

(* The file system as the pipeline sees it: whether the directory of       *)
(* configFilePath exists, and the file there: <<>> when there is none,     *)
(* else <<[perm, content]>> with perm "rw" or "none" (a file this process  *)
(* may not open).                                                          *)
File(perm, content) == [perm |-> perm, content |-> content]

ErrNotExist == Err("stat", "no such file or directory")
ErrPermission == Err("open", "permission denied")
ErrExist == Err("open", "file exists")

\* os.Stat(configFilePath): the error.
Stat(fsys) == IF fsys.file = Nil THEN ErrNotExist ELSE Nil

\* A test that takes every error for a missing file.
IsNotExistAnyError(err) == err # Nil

IsNotExist(err) == err = ErrNotExist

IsExist(err) == err = ErrExist

(* TryUpdateConfigFromFile(cfg, configFilePath): the outcomes              *)
(* [cfg, err, leaked], leaked counting the handles it opened and did not   *)
(* close (cfgFile is never closed once os.Open succeeded).  Seek on a      *)
(* regular file opened for reading does not fail.                          *)
TryUpdateConfigFromFile(cfg, fsys, os) ==
    IF Stat(fsys) # Nil
    THEN {[cfg |-> cfg, err |-> Stat(fsys), leaked |-> 0]}
    ELSE IF fsys.file[1].perm = "none"
    THEN {[cfg |-> cfg, err |-> ErrPermission, leaked |-> 0]}
    ELSE LET content == fsys.file[1].content IN
         { IF o.err # Nil
           THEN [cfg |-> o.cfg, err |-> o.err, leaked |-> 1]
           ELSE LET d == DecodeDeprecated(content) IN
                IF d.err # Nil
                THEN [cfg |-> o.cfg, err |-> d.err, leaked |-> 1]
                ELSE [cfg |-> migrate(o.cfg, d.dep, d.defined, os), err |-> Nil, leaked |-> 1]
           : o \in DecodeConfig(cfg, content) }

\* ---------------------------------------------------------------- encoder

(* toml.NewEncoder(f).Encode(mvc) for a MinValuableConfig, by its struct   *)
(* tags: a field tagged commented:"true" is written as a comment, a field  *)
(* tagged omitempty is left out when empty, a comment tag puts a comment   *)
(* line before the key.                                                    *)
EncodeMinValuableConfig(mvc) ==
    << DocLine("log_level"), StrLine("log_level", mvc.LogLevel),
       CommentedStrLine("io_mode", mvc.IOMode) >>
    \o (IF mvc.OutFile = "" THEN <<>>
        ELSE << DocLine("out_file"), StrLine("out_file", mvc.OutFile) >>)
    \o << CommentedStrLine("hub_url", mvc.HubURL),
          CommentedStrLine("hub_user", mvc.HubUser),
          CommentedStrLine("hub_password", mvc.HubPassword) >>

\* A write of `new` at offset 0 of a file holding `old`, opened without
\* O_TRUNC: what lies beyond the written part stays.
Overwrite(old, new) ==
    new \o (IF Len(old) > Len(new) THEN SubSeq(old, Len(new) + 1, Len(old)) ELSE <<>>)

\* The system calls of GenerateDefaultConfigFile that can fail.
Faults == {"none", "mkdir", "open", "write", "encode"}

(* GenerateDefaultConfigFile(mvc, configFilePath) with the system call     *)
(* `fault` failing: [fs, err, leaked].  os.Stat returns nil or a not-exist *)
(* error, neither of which os.IsExist accepts; os.OpenFile has O_WRONLY    *)
(* and O_CREATE only; the deferred Close releases the handle on every      *)
(* path after the open.                                                    *)
GenerateDefaultConfigFile(mvc, fsys, fault) ==
    IF IsExist(Stat(fsys))
    THEN [fs |-> fsys, err |-> Err("config file already exists at path", ""), leaked |-> 0]
    ELSE IF ~fsys.dir /\ fault = "mkdir"
    THEN [fs |-> fsys,
          err |-> Err("failed to auto-create the default config file directory", ""),
          leaked |-> 0]
    ELSE IF fault = "open" \/ (fsys.file # Nil /\ fsys.file[1].perm = "none")
    THEN [fs |-> [fsys EXCEPT !.dir = TRUE],
          err |-> Err("failed to create the default config file", ""),
          leaked |-> 0]
    ELSE LET old == IF fsys.file = Nil THEN <<>> ELSE fsys.file[1].content
             put(content) == [dir |-> TRUE, file |-> Some(File("rw", content))]
         IN CASE fault = "write" ->
                   [fs |-> put(old),
                    err |-> Err("failed to write headline to config file", ""),
                    leaked |-> 0]
              [] fault = "encode" ->
                   [fs |-> put(Overwrite(old, configAutogeneratedHeadline)),
                    err |-> Err("failed to encode config to file", ""),
                    leaked |-> 0]
              [] OTHER ->
                   [fs |-> put(Overwrite(old, configAutogeneratedHeadline
                                              \o EncodeMinValuableConfig(mvc))),
                    err |-> Nil,
                    leaked |-> 0]

(* SaveConfigFile(cfg, configFilePath) for a MinValuableConfig, with the    *)
(* system call `fault` failing: [fs, err, leaked].  It makes no directory, *)
(* so the open fails when there is none; os.OpenFile has O_WRONLY and      *)
(* O_CREATE only; the deferred Close releases the handle on every path     *)
(* after the open.                                                         *)
SaveConfigFile(mvc, fsys, fault) ==
    IF fault = "open" \/ ~fsys.dir \/ (fsys.file # Nil /\ fsys.file[1].perm = "none")
    THEN [fs |-> fsys, err |-> Err("failed to open the config file", ""), leaked |-> 0]
    ELSE LET old == IF fsys.file = Nil THEN <<>> ELSE fsys.file[1].content
             put(content) == [dir |-> TRUE, file |-> Some(File("rw", content))]
         IN CASE fault = "write" ->
                   [fs |-> put(old),
                    err |-> Err("failed to write headline to config file", ""),
                    leaked |-> 0]
              [] fault = "encode" ->
                   [fs |-> put(Overwrite(old, configAutogeneratedHeadline)),
                    err |-> Err("failed to encode config to file", ""),
                    leaked |-> 0]
              [] OTHER ->
                   [fs |-> put(Overwrite(old, configAutogeneratedHeadline
                                              \o EncodeMinValuableConfig(mvc))),
                    err |-> Nil,
                    leaked |-> 0]

\* ------------------------------------------------------------- validation

(* Numbers wider than 32-bit integers.  A natural number is the            *)
(* sequence of its digits in base 2^15, least significant first, without   *)
(* leading zeros (0 is <<>>).  A float64 is [kind, m, e]: the value        *)
(* m * 2^e, m a natural of at most 54 bits, when kind is "num".            *)
LimbBase == 2^15

RECURSIVE BigNorm(_)
BigNorm(a) ==
    IF a = <<>> THEN <<>>
    ELSE IF a[Len(a)] = 0 THEN BigNorm(SubSeq(a, 1, Len(a) - 1))
    ELSE a

RECURSIVE BigOfInt(_)
BigOfInt(n) == IF n = 0 THEN <<>> ELSE <<n % LimbBase>> \o BigOfInt(n \div LimbBase)

RECURSIVE BigMulCarry(_, _, _, _)
\* The limbs of a * c + carry from limb i on, four limbs to a step.
BigMulCarry(a, c, i, carry) ==
    IF i > Len(a) THEN BigOfInt(carry)
    ELSE IF i + 3 <= Len(a)
    THEN LET t1 == a[i] * c + carry
             t2 == a[i + 1] * c + t1 \div LimbBase
             t3 == a[i + 2] * c + t2 \div LimbBase
             t4 == a[i + 3] * c + t3 \div LimbBase
         IN <<t1 % LimbBase, t2 % LimbBase, t3 % LimbBase, t4 % LimbBase>>
            \o BigMulCarry(a, c, i + 4, t4 \div LimbBase)
    ELSE LET t == a[i] * c + carry
         IN <<t % LimbBase>> \o BigMulCarry(a, c, i + 1, t \div LimbBase)

\* a * c for 0 <= c <= 2^15
BigMulSmall(a, c) == BigNorm(BigMulCarry(a, c, 1, 0))

RECURSIVE BigAddSmall(_, _)
\* a + c for 0 <= c < 2^15
BigAddSmall(a, c) ==
    IF c = 0 THEN a
    ELSE IF a = <<>> THEN <<c>>
    ELSE LET t == a[1] + c
         IN <<t % LimbBase>> \o BigAddSmall(Tail(a), t \div LimbBase)

RECURSIVE BigDivFrom(_, _, _, _)
BigDivFrom(a, d, i, rem) ==
    IF i = 0 THEN [q |-> <<>>, r |-> rem]
    ELSE LET t == rem * LimbBase + a[i]
             rest == BigDivFrom(a, d, i - 1, t % d)
         IN [q |-> rest.q \o <<t \div d>>, r |-> rest.r]

\* [q, r]: a = q * d + r for 0 < d <= 2^15
BigDivSmall(a, d) ==
    LET x == BigDivFrom(a, d, Len(a), 0) IN [q |-> BigNorm(x.q), r |-> x.r]

\* a < b
BigLess(a, b) ==
    \/ Len(a) < Len(b)
    \/ /\ Len(a) = Len(b)
       /\ \E i \in 1..Len(a) : /\ a[i] < b[i]
                               /\ \A j \in (i + 1)..Len(a) : a[j] = b[j]

RECURSIVE BitLenSmall(_)
BitLenSmall(n) == IF n = 0 THEN 0 ELSE 1 + BitLenSmall(n \div 2)

BigBitLen(a) == IF a = <<>> THEN 0 ELSE 15 * (Len(a) - 1) + BitLenSmall(a[Len(a)])

\* a * 2^k
BigShiftLeft(a, k) ==
    IF a = <<>> THEN a
    ELSE [i \in 1..(k \div 15) |-> 0] \o BigMulSmall(a, 2^(k % 15))

RECURSIVE BigShiftRight(_, _, _, _)
(* a shifted right by k bits: [q, half, sticky], half the last bit shifted *)
(* out and sticky whether any bit below it was set.                        *)
BigShiftRight(a, k, half, sticky) ==
    IF k = 0 THEN [q |-> a, half |-> half, sticky |-> sticky]
    ELSE IF a = <<>> THEN [q |-> a, half |-> FALSE, sticky |-> sticky \/ half]
    ELSE IF k >= 15
    THEN IF sticky \/ half \/ a[1] % (2^14) # 0
         THEN BigShiftRight(Tail(a), k - 15, a[1] >= 2^14, TRUE)
         ELSE BigShiftRight(Tail(a), k - 15, a[1] >= 2^14, FALSE)
    ELSE LET d == BigDivSmall(a, 2)
         IN IF sticky \/ half
            THEN BigShiftRight(d.q, k - 1, d.r = 1, TRUE)
            ELSE BigShiftRight(d.q, k - 1, d.r = 1, FALSE)

RECURSIVE BigMulPow10(_, _)
\* a * 10^j
BigMulPow10(a, j) ==
    IF j = 0 \/ a = <<>> THEN a
    ELSE IF j >= 16
    THEN BigMulPow10(BigMulSmall(BigMulSmall(BigMulSmall(BigMulSmall(a, 10000), 10000),
                                             10000), 10000), j - 16)
    ELSE IF j >= 4 THEN BigMulPow10(BigMulSmall(a, 10000), j - 4)
    ELSE BigMulPow10(BigMulSmall(a, 10), j - 1)

RECURSIVE BigDivPow10(_, _, _)
(* [q, sticky]: q = a \div 10^j, sticky whether the division (or an        *)
(* earlier one) left a remainder.                                          *)
BigDivPow10(a, j, sticky) ==
    IF j = 0 \/ a = <<>> THEN [q |-> a, sticky |-> sticky]
    ELSE LET d == BigDivSmall(a, IF j >= 4 THEN 10000 ELSE 10)
             left == IF j >= 4 THEN j - 4 ELSE j - 1
         IN IF sticky \/ d.r # 0
            THEN BigDivPow10(d.q, left, TRUE)
            ELSE BigDivPow10(d.q, left, FALSE)

Max(x, y) == IF x >= y THEN x ELSE y

Float64Zero == [kind |-> "zero", m |-> <<>>, e |-> 0]

(* The float64 nearest to n * 2^e (plus a non-zero part below n's last bit *)
(* when sticky), ties to even: 53 bits, fewer below 2^-1022, and overflow  *)
(* from 2^1024 on.                                                         *)
RoundFloat64(n, e, sticky) ==
    LET sh == Max(Max(BigBitLen(n) - 53, (-1074) - e), 0)
        s == BigShiftRight(n, sh, FALSE, sticky)
        up == s.half /\ (s.sticky \/ (s.q # <<>> /\ s.q[1] % 2 = 1))
        m == IF up THEN BigAddSmall(s.q, 1) ELSE s.q
    IN IF m = <<>> THEN Float64Zero
       ELSE IF BigBitLen(m) + e + sh > 1024 THEN [kind |-> "inf", m |-> <<>>, e |-> 0]
       ELSE [kind |-> "num", m |-> m, e |-> e + sh]

\* The float64 nearest to mant * 10^p, mant a natural.
DecimalToFloat64(mant, p) ==
    IF mant = <<>> THEN Float64Zero
    ELSE IF p >= 0 THEN RoundFloat64(BigMulPow10(mant, p), 0, FALSE)
    ELSE LET k == 64 + 4 * (-p)
             d == BigDivPow10(BigShiftLeft(mant, k), -p, FALSE)
         IN RoundFloat64(d.q, -k, d.sticky)

\* f * c in float64 arithmetic, c a small positive integer.
Float64MulSmall(f, c) ==
    IF f.kind # "num" THEN f ELSE RoundFloat64(BigMulSmall(f.m, c), f.e, FALSE)

(* uint64(f) of a float64 that uint64 cannot hold (2^64 and above, an      *)
(* infinity, a NaN) is implementation-dependent: 2^63 on amd64, 0 or       *)
(* 2^64 - 1 on arm64.                                                      *)
Uint64Undefined ==
    { <<>>, <<0, 0, 0, 0, 8>>, <<32767, 32767, 32767, 32767, 15>> }

\* uint64(f) for f >= 0: the set of results.
Float64ToUint64(f) ==
    IF f.kind = "zero" THEN { <<>> }
    ELSE IF f.kind # "num" THEN Uint64Undefined
    ELSE IF BigBitLen(f.m) + f.e > 64 THEN Uint64Undefined
    ELSE IF f.e >= 0 THEN { BigShiftLeft(f.m, f.e) }
    ELSE { BigShiftRight(f.m, -f.e, FALSE, FALSE).q }

Digits == {"0", "1", "2", "3", "4", "5", "6", "7", "8", "9"}

DigitVal(c) ==
    CASE c = "0" -> 0 [] c = "1" -> 1 [] c = "2" -> 2 [] c = "3" -> 3 [] c = "4" -> 4
      [] c = "5" -> 5 [] c = "6" -> 6 [] c = "7" -> 7 [] c = "8" -> 8 [] c = "9" -> 9

HexLetters == {"a", "b", "c", "d", "e", "f", "A", "B", "C", "D", "E", "F"}

HexLetterVal(c) ==
    CASE c \in {"a", "A"} -> 10 [] c \in {"b", "B"} -> 11 [] c \in {"c", "C"} -> 12
      [] c \in {"d", "D"} -> 13 [] c \in {"e", "E"} -> 14 [] c \in {"f", "F"} -> 15

\* strconv's lower(c) for the letters it is compared with.
Lower(c) ==
    CASE c = "A" -> "a" [] c = "B" -> "b" [] c = "E" -> "e" [] c = "F" -> "f"
      [] c = "I" -> "i" [] c = "N" -> "n" [] c = "O" -> "o" [] c = "P" -> "p"
      [] c = "T" -> "t" [] c = "X" -> "x" [] c = "Y" -> "y" [] OTHER -> c


(* strconv.special: the string is "inf" or "infinity" with an optional     *)
(* sign, or "nan" without one, in any case of the letters.  "" when it is  *)
(* neither.                                                                *)
Special(s) ==
    LET signed == Len(s) > 0 /\ s[1] \in {"+", "-"}
        low == [i \in 1..(Len(s) - (IF signed THEN 1 ELSE 0)) |->
                  Lower(s[i + (IF signed THEN 1 ELSE 0)])]
    IN IF low \in {<<"i", "n", "f">>, <<"i", "n", "f", "i", "n", "i", "t", "y">>} THEN "inf"
       ELSE IF ~signed /\ low = <<"n", "a", "n">> THEN "nan"
       ELSE ""

RECURSIVE UnderscoreScan(_, _, _, _)
\* The loop of strconv.underscoreOK from position i, saw being "^", "0",
\* "_" or "!".
UnderscoreScan(s, i, hex, saw) ==
    IF i > Len(s) THEN saw # "_"
    ELSE IF s[i] \in Digits \/ (hex /\ s[i] \in HexLetters)
    THEN UnderscoreScan(s, i + 1, hex, "0")
    ELSE IF s[i] = "_"
    THEN IF saw # "0" THEN FALSE ELSE UnderscoreScan(s, i + 1, hex, "_")
    ELSE IF saw = "_" THEN FALSE
    ELSE UnderscoreScan(s, i + 1, hex, "!")

\* strconv.underscoreOK: an underscore stands only between digits, or
\* between a base prefix and a digit.
UnderscoreOK(str) ==
    LET s == IF Len(str) >= 1 /\ str[1] \in {"+", "-"} THEN Tail(str) ELSE str
        prefixed == Len(s) >= 2 /\ s[1] = "0" /\ Lower(s[2]) \in {"b", "o", "x"}
    IN IF prefixed
       THEN UnderscoreScan(s, 3, Lower(s[2]) = "x", "0")
       ELSE UnderscoreScan(s, 1, FALSE, "^")

RECURSIVE ReadDigits(_, _, _, _)
(* The digit loop of strconv.readFloat from position i in base 10 or 16.   *)
(* st is [sawdot, sawdigits, nd, dp, mantissa, underscores, i]: nd counts  *)
(* the digits from the first non-zero one, dp is the place of the point    *)
(* among them, mantissa is the natural they spell (all of them: the        *)
(* library keeps the first 19, or 16, and whether a later one is non-zero, *)
(* which rounds to the same float64), i the position the loop stopped at.  *)
ReadDigits(s, i, base, st) ==
    IF st.nd < 0 \/ i > Len(s) THEN [st EXCEPT !.i = i]
    ELSE IF s[i] = "_"
    THEN ReadDigits(s, i + 1, base, [st EXCEPT !.underscores = TRUE])
    ELSE IF s[i] = "."
    THEN IF st.sawdot THEN [st EXCEPT !.i = i]
         ELSE ReadDigits(s, i + 1, base, [st EXCEPT !.sawdot = TRUE, !.dp = st.nd])
    ELSE IF s[i] \in Digits
    THEN IF s[i] = "0" /\ st.nd = 0
         THEN ReadDigits(s, i + 1, base, [st EXCEPT !.sawdigits = TRUE, !.dp = @ - 1])
         ELSE ReadDigits(s, i + 1, base,
                         [st EXCEPT !.sawdigits = TRUE, !.nd = @ + 1,
                                    !.mantissa = BigAddSmall(BigMulSmall(@, base),
                                                             DigitVal(s[i]))])
    ELSE IF base = 16 /\ s[i] \in HexLetters
    THEN ReadDigits(s, i + 1, base,
                    [st EXCEPT !.sawdigits = TRUE, !.nd = @ + 1,
                               !.mantissa = BigAddSmall(BigMulSmall(@, base),
                                                        HexLetterVal(s[i]))])
    ELSE [st EXCEPT !.i = i]

RECURSIVE ReadExponent(_, _, _, _)
(* The exponent loop of strconv.readFloat from position i: [e, i,          *)
(* underscores], e held once it has reached 10000.                         *)
ReadExponent(s, i, e, underscores) ==
    IF e < 0 \/ i > Len(s) THEN [e |-> e, i |-> i, underscores |-> underscores]
    ELSE IF s[i] = "_" THEN ReadExponent(s, i + 1, e, TRUE)
    ELSE IF s[i] \in Digits
    THEN ReadExponent(s, i + 1, IF e < 10000 THEN e * 10 + DigitVal(s[i]) ELSE e, underscores)
    ELSE [e |-> e, i |-> i, underscores |-> underscores]

\* The part of strconv.readFloat after the digit loop.
ReadFloatTail(s, neg, hex, st) ==
    LET fail == [ok |-> FALSE, neg |-> neg, hex |-> hex, mantissa |-> <<>>, nd |-> 0,
                 dp |-> 0, n |-> 0]
        width == IF hex THEN 4 ELSE 1
        dp == width * (IF st.sawdot THEN st.dp ELSE st.nd)
        i == st.i
        marked == i <= Len(s) /\ Lower(s[i]) = (IF hex THEN "p" ELSE "e")
        esigned == marked /\ i + 1 <= Len(s) /\ s[i + 1] \in {"+", "-"}
        first == IF esigned THEN i + 2 ELSE i + 1
        x == ReadExponent(s, first, 0, st.underscores)
        done(d, last, under) ==
            IF under /\ ~UnderscoreOK(SubSeq(s, 1, last - 1)) THEN fail
            ELSE [ok |-> TRUE, neg |-> neg, hex |-> hex, mantissa |-> st.mantissa,
                  nd |-> width * st.nd, dp |-> d, n |-> last - 1]
    IN IF ~st.sawdigits THEN fail
       ELSE IF marked
       THEN IF first > Len(s) \/ s[first] \notin Digits THEN fail
            ELSE done(dp + (IF esigned /\ s[i + 1] = "-" THEN -x.e ELSE x.e), x.i,
                      x.underscores)
       ELSE IF hex THEN fail
       ELSE done(dp, i, st.underscores)

(* strconv.readFloat: [ok, neg, hex, mantissa, nd, dp, n].  The number is  *)
(* mantissa * 10^(dp - nd), or mantissa * 2^(dp - nd) when hex; n is the   *)
(* number of characters read.                                              *)
ReadFloat(s) ==
    LET signed == Len(s) > 0 /\ s[1] \in {"+", "-"}
        neg == signed /\ s[1] = "-"
        i == IF signed THEN 2 ELSE 1
        hex == i + 2 <= Len(s) /\ s[i] = "0" /\ Lower(s[i + 1]) = "x"
        st0 == [sawdot |-> FALSE, sawdigits |-> FALSE, nd |-> 0, dp |-> 0,
                mantissa |-> <<>>, underscores |-> FALSE, i |-> 0]
    IN IF s = <<>>
       THEN [ok |-> FALSE, neg |-> FALSE, hex |-> FALSE, mantissa |-> <<>>, nd |-> 0,
             dp |-> 0, n |-> 0]
       ELSE ReadFloatTail(s, neg, hex,
                          ReadDigits(s, IF hex THEN i + 2 ELSE i, IF hex THEN 16 ELSE 10, st0))

\* 2^1024 - 2^970, the least value that rounds to an infinity.
OverflowThreshold == BigShiftLeft(<<32767, 32767, 32767, 511>>, 970)

\* mantissa * 10^p >= 2^1024 - 2^970
DecimalOverflows(mantissa, p) ==
    IF p >= 0 THEN ~BigLess(BigMulPow10(mantissa, p), OverflowThreshold)
    ELSE ~BigLess(mantissa, BigMulPow10(OverflowThreshold, -p))

\* mantissa * 10^p <= 2^-1075, the greatest value that rounds to zero (p < 0).
DecimalUnderflows(mantissa, p) ==
    ~BigLess(BigMulPow10(<<1>>, -p), BigShiftLeft(mantissa, 1075))

(* The float64 of the decimal number mantissa * 10^(dp - nd), which lies   *)
(* in [10^(dp - 1), 10^dp): [kind, neg, f].                                *)
DecimalFloat(neg, mantissa, nd, dp) ==
    LET res(kind, f) == [kind |-> kind, neg |-> neg, f |-> f]
    IN IF mantissa = <<>> THEN res("zero", Float64Zero)
       ELSE IF dp > 309 THEN res("range", Float64Zero)
       ELSE IF dp = 309
       THEN IF DecimalOverflows(mantissa, dp - nd) THEN res("range", Float64Zero)
            ELSE res("huge", Float64Zero)
       ELSE IF dp > 17 THEN res("huge", Float64Zero)
       ELSE IF dp < -323 THEN res("zero", Float64Zero)
       ELSE IF dp = -323
       THEN IF DecimalUnderflows(mantissa, dp - nd) THEN res("zero", Float64Zero)
            ELSE res("tiny", Float64Zero)
       ELSE IF dp <= -12 THEN res("tiny", Float64Zero)
       ELSE res("num", DecimalToFloat64(mantissa, dp - nd))

\* strconv.atofHex: the float64 of mantissa * 2^e, [kind, neg, f].
HexFloat(neg, mantissa, e) ==
    LET f == RoundFloat64(mantissa, e, FALSE)
    IN [kind |-> IF f.kind = "inf" THEN "range" ELSE f.kind, neg |-> neg,
        f |-> IF f.kind = "inf" THEN Float64Zero ELSE f]

\* The conversion of what strconv.readFloat has read.
FloatOf(str, r) ==
    IF ~r.ok \/ r.n # Len(str) THEN [kind |-> "syntax", neg |-> r.neg, f |-> Float64Zero]
    ELSE IF r.hex THEN HexFloat(r.neg, r.mantissa, r.dp - r.nd)
    ELSE DecimalFloat(r.neg, r.mantissa, r.nd, r.dp)

(* strconv.ParseFloat(str, 64): [kind, neg, f].  kind is "syntax" or       *)
(* "range" (an error is returned), "nan", "inf", "zero", "num" with f the  *)
(* float64, "huge" for a finite decimal value of 10^17 or more and "tiny"  *)
(* for a non-zero one below 10^-12, whose float64 is not worked out: times *)
(* 1000 the first is beyond uint64, and times 1000^3 the second is below   *)
(* 1.                                                                      *)
ParseFloat(str) ==
    IF Special(str) = "inf"
    THEN [kind |-> "inf", neg |-> str[1] = "-", f |-> Float64Zero]
    ELSE IF Special(str) = "nan"
    THEN [kind |-> "nan", neg |-> FALSE, f |-> Float64Zero]
    ELSE FloatOf(str, ReadFloat(str))

\* uint64(f) for the product f of the parsed value and its unit.
SpeedToUint64(value, f) ==
    IF value.kind \in {"nan", "inf", "huge"} THEN Uint64Undefined
    ELSE IF value.kind = "tiny" THEN { <<>> }
    ELSE Float64ToUint64(f)

RECURSIVE Float64MulThousands(_, _)
\* f * 1000 * ... * 1000 (k factors), rounded after each product.
Float64MulThousands(f, k) ==
    IF k = 0 THEN f ELSE Float64MulThousands(Float64MulSmall(f, 1000), k - 1)

\* The part of GetParsedNetInterfaceMaxSpeed after strconv.ParseFloat.
ParsedSpeed(value, unit) ==
    IF value.kind = "syntax"
    THEN [err |-> Err("strconv.ParseFloat", "invalid syntax"), vals |-> { <<>> }]
    ELSE IF value.kind = "range"
    THEN [err |-> Err("strconv.ParseFloat", "value out of range"), vals |-> { <<>> }]
    ELSE IF value.kind = "zero" \/ (value.kind # "nan" /\ value.neg)
    THEN [err |-> Err("should be > 0.0", ""), vals |-> { <<>> }]
    ELSE IF unit \in {"K", "M", "G"}
    THEN [err |-> Nil,
          vals |-> SpeedToUint64(value,
                                 Float64MulThousands(value.f,
                                     CASE unit = "K" -> 1 [] unit = "M" -> 2
                                       [] unit = "G" -> 3))]
    ELSE [err |-> Err("unsupported unit", unit), vals |-> { <<>> }]

(* GetParsedNetInterfaceMaxSpeed on the characters v: [err, vals], vals    *)
(* the values the call can return (one, unless the conversion to uint64 is *)
(* implementation-dependent).                                              *)
GetParsedNetInterfaceMaxSpeed(v) ==
    IF v = <<>> THEN [err |-> Nil, vals |-> { <<>> }]
    ELSE IF Len(v) < 2 THEN [err |-> Err("can't parse", ""), vals |-> { <<>> }]
    ELSE ParsedSpeed(ParseFloat(SubSeq(v, 1, Len(v) - 1)), v[Len(v)])

\* strings.HasPrefix(s, prefix) and strings.Index / LastIndex of one
\* character (0 when it is absent) on the characters of a string.
HasPrefix(s, prefix) == Len(s) >= Len(prefix) /\ SubSeq(s, 1, Len(prefix)) = prefix
IndexByte(s, c) ==
    IF \E i \in 1..Len(s) : s[i] = c
    THEN CHOOSE i \in 1..Len(s) : s[i] = c /\ \A j \in 1..(i - 1) : s[j] # c
    ELSE 0
LastIndexByte(s, c) ==
    IF \E i \in 1..Len(s) : s[i] = c
    THEN CHOOSE i \in 1..Len(s) : s[i] = c /\ \A j \in (i + 1)..Len(s) : s[j] # c
    ELSE 0
\* The part of s before, and after, position i; all of s, and nothing, for i = 0.
Before(s, i) == IF i = 0 THEN s ELSE SubSeq(s, 1, i - 1)
After(s, i) == IF i = 0 THEN <<>> ELSE SubSeq(s, i + 1, Len(s))

\* strings.HasPrefix(cfg.HubProxy, "http")
HasPrefixHTTP(p) == HasPrefix(p, <<"h", "t", "t", "p">>)

(* net/url.Parse, as far as its error goes, in the library as it stood up  *)
(* to Go 1.24: "" or the error.  The control characters are the ones a     *)
(* string of this model can hold, and the backquote is not one of its      *)
(* characters.                                                             *)
Letters ==
    {"a", "b", "c", "d", "e", "f", "g", "h", "i", "j", "k", "l", "m",
     "n", "o", "p", "q", "r", "s", "t", "u", "v", "w", "x", "y", "z",
     "A", "B", "C", "D", "E", "F", "G", "H", "I", "J", "K", "L", "M",
     "N", "O", "P", "Q", "R", "S", "T", "U", "V", "W", "X", "Y", "Z"}
StringContainsCTLByte(s) == \E i \in 1..Len(s) : s[i] \in {"\t", "\n", "\f", "\r"}

IsHex(c) == c \in Digits \cup HexLetters
Unhex(c) == IF c \in Digits THEN DigitVal(c) ELSE HexLetterVal(c)

\* The ASCII characters shouldEscape(c, encodeHost) reports, "%" apart.
HostEscaped == {" ", "#", "/", "?", "@", "\\", "^", "{", "|", "}", "\t", "\n", "\f", "\r"}
(* The bytes a zone may hold escaped: the space and the bytes              *)
(* shouldEscape(v, encodeHost) lets through, by their codes.               *)
ZoneEscapable ==
    {32, 33, 34, 36} \cup (38..46) \cup (48..62) \cup (65..91) \cup {93, 95}
    \cup (97..122) \cup {126}

(* unescape(s, mode) fails at position i: a "%" without two hex digits, an *)
(* escape the mode forbids, or, in a host or a zone, a character that has  *)
(* to be escaped.                                                          *)
UnescapeFailsAt(s, i, mode) ==
    IF s[i] = "%"
    THEN \/ i + 2 > Len(s)
         \/ ~IsHex(s[i + 1])
         \/ ~IsHex(s[i + 2])
         \/ /\ mode = "host"
            /\ Unhex(s[i + 1]) < 8
            /\ SubSeq(s, i, i + 2) # <<"%", "2", "5">>
         \/ /\ mode = "zone"
            /\ SubSeq(s, i, i + 2) # <<"%", "2", "5">>
            /\ (16 * Unhex(s[i + 1]) + Unhex(s[i + 2])) \notin ZoneEscapable
    ELSE mode \in {"host", "zone"} /\ s[i] \in HostEscaped

\* unescape(s, mode) returns no error.
UnescapeOK(s, mode) == \A i \in 1..Len(s) : ~UnescapeFailsAt(s, i, mode)

\* getScheme: the first position that ends the run of scheme characters, 0
\* when the string is such a run.
SchemeStop(s) ==
    IF \E i \in 1..Len(s) : s[i] \notin Letters /\ (s[i] \notin Digits \cup {"+", "-", "."} \/ i = 1)
    THEN CHOOSE i \in 1..Len(s) :
            /\ s[i] \notin Letters /\ (s[i] \notin Digits \cup {"+", "-", "."} \/ i = 1)
            /\ \A j \in 1..(i - 1) : s[j] \in Letters \/ (s[j] \in Digits \cup {"+", "-", "."} /\ j > 1)
    ELSE 0
\* getScheme: [scheme, rest, err]
GetSchemeAt(s, i) ==
    IF i = 0 \/ s[i] # ":" THEN [scheme |-> <<>>, rest |-> s, err |-> ""]
    ELSE IF i = 1 THEN [scheme |-> <<>>, rest |-> <<>>, err |-> "missing protocol scheme"]
    ELSE [scheme |-> SubSeq(s, 1, i - 1), rest |-> SubSeq(s, i + 1, Len(s)), err |-> ""]
GetScheme(s) == GetSchemeAt(s, SchemeStop(s))

\* validOptionalPort
ValidOptionalPort(port) ==
    \/ port = <<>>
    \/ port[1] = ":" /\ \A i \in 2..Len(port) : port[i] \in Digits

\* The first position of "%25" in s, 0 when it is absent.
IndexZone(s) ==
    IF \E i \in 1..(Len(s) - 2) : SubSeq(s, i, i + 2) = <<"%", "2", "5">>
    THEN CHOOSE i \in 1..(Len(s) - 2) :
            /\ SubSeq(s, i, i + 2) = <<"%", "2", "5">>
            /\ \A j \in 1..(i - 1) : SubSeq(s, j, j + 2) # <<"%", "2", "5">>
    ELSE 0

\* parseHost of a host in brackets, i the position of its last "]".
ParseHostLiteral(host, i, zone) ==
    IF i = 0 THEN "missing ] in host"
    ELSE IF ~ValidOptionalPort(SubSeq(host, i + 1, Len(host))) THEN "invalid port after host"
    ELSE IF zone > 0
    THEN IF /\ UnescapeOK(SubSeq(host, 1, zone - 1), "host")
            /\ UnescapeOK(SubSeq(host, zone, i - 1), "zone")
            /\ UnescapeOK(SubSeq(host, i, Len(host)), "host")
         THEN "" ELSE "invalid URL escape or host"
    ELSE IF UnescapeOK(host, "host") THEN "" ELSE "invalid URL escape or host"

\* parseHost
ParseHost(host) ==
    IF HasPrefix(host, <<"[">>)
    THEN ParseHostLiteral(host, LastIndexByte(host, "]"),
                          IndexZone(Before(host, LastIndexByte(host, "]"))))
    ELSE IF LastIndexByte(host, ":") # 0
            /\ ~ValidOptionalPort(SubSeq(host, LastIndexByte(host, ":"), Len(host)))
    THEN "invalid port after host"
    ELSE IF UnescapeOK(host, "host") THEN "" ELSE "invalid URL escape or host"

\* validUserinfo
ValidUserinfo(s) ==
    \A i \in 1..Len(s) :
        s[i] \in Letters \cup Digits
                 \cup {"-", ".", "_", ":", "~", "!", "$", "&", "'", "(", ")", "*", "+", ",",
                       ";", "=", "%", "@"}

\* parseAuthority, i the position of the last "@" of the authority.
ParseAuthorityAt(authority, i) ==
    IF i = 0 THEN ParseHost(authority)
    ELSE IF ParseHost(After(authority, i)) # "" THEN ParseHost(After(authority, i))
    ELSE IF ~ValidUserinfo(Before(authority, i)) THEN "net/url: invalid userinfo"
    ELSE IF /\ UnescapeOK(Before(Before(authority, i), IndexByte(Before(authority, i), ":")),
                          "userPassword")
            /\ UnescapeOK(After(Before(authority, i), IndexByte(Before(authority, i), ":")),
                          "userPassword")
    THEN "" ELSE "invalid URL escape"
ParseAuthority(authority) == ParseAuthorityAt(authority, LastIndexByte(authority, "@"))

\* setPath and setFragment, which unescape the path and the fragment.
SetUnescaped(p, mode) == IF UnescapeOK(p, mode) THEN "" ELSE "invalid URL escape"

\* parse after the scheme and the query were split off: the authority, with
\* the path after it, when rest starts with "//".
ParseAuthorityAndPath(authority, i) ==
    IF ParseAuthority(Before(authority, i)) # "" THEN ParseAuthority(Before(authority, i))
    ELSE SetUnescaped(IF i = 0 THEN <<>> ELSE SubSeq(authority, i, Len(authority)), "path")
ParseRest(scheme, rest) ==
    IF ~HasPrefix(rest, <<"/">>) /\ scheme # <<>> THEN ""
    ELSE IF /\ ~HasPrefix(rest, <<"/">>)
            /\ IndexByte(Before(rest, IndexByte(rest, "/")), ":") # 0
    THEN "first path segment in URL cannot contain colon"
    ELSE IF /\ scheme # <<>> \/ ~HasPrefix(rest, <<"/", "/", "/">>)
            /\ HasPrefix(rest, <<"/", "/">>)
    THEN ParseAuthorityAndPath(SubSeq(rest, 3, Len(rest)),
                               IndexByte(SubSeq(rest, 3, Len(rest)), "/"))
    ELSE SetUnescaped(rest, "path")

\* parse(rawURL, false)
ParseNoFragment(rawURL) ==
    IF StringContainsCTLByte(rawURL) THEN "net/url: invalid control character in URL"
    ELSE IF rawURL = <<"*">> THEN ""
    ELSE IF GetScheme(rawURL).err # "" THEN GetScheme(rawURL).err
    ELSE ParseRest(GetScheme(rawURL).scheme,
                   Before(GetScheme(rawURL).rest, IndexByte(GetScheme(rawURL).rest, "?")))

\* url.Parse
Parse(rawURL) ==
    IF ParseNoFragment(Before(rawURL, IndexByte(rawURL, "#"))) # ""
    THEN ParseNoFragment(Before(rawURL, IndexByte(rawURL, "#")))
    ELSE SetUnescaped(After(rawURL, IndexByte(rawURL, "#")), "fragment")

\* common.StrInSlice
StrInSlice(x, slice) == \E i \in 1..Len(slice) : slice[i] = x

(* filepath.IsAbs on windows (the library since Go 1.21): the path starts  *)
(* with two separators, or a separator follows its volume name.            *)
IsSlash(c) == c \in {"\\", "/"}
\* The paths \\. \\? and \??, alone or followed by a separator.
IsDevicePrefix(path) ==
    /\ Len(path) >= 3
    /\ IsSlash(path[1])
    /\ \/ IsSlash(path[2]) /\ path[3] \in {".", "?"}
       \/ path[2] = "?" /\ path[3] = "?"
    /\ Len(path) = 3 \/ IsSlash(path[4])
WindowsIsAbs(path) ==
    IF Len(path) >= 2 /\ path[2] = ":" THEN Len(path) >= 3 /\ IsSlash(path[3])
    ELSE IF Len(path) = 0 \/ ~IsSlash(path[1]) THEN FALSE
    ELSE IF Len(path) >= 2 /\ IsSlash(path[2]) THEN TRUE
    ELSE IsDevicePrefix(path) /\ \E i \in 5..Len(path) : IsSlash(path[i])

\* filepath.IsAbs on the host OS; on unix the path starts with a slash.
IsAbs(os, path) == IF os = "windows" THEN WindowsIsAbs(path) ELSE HasPrefix(path, <<"/">>)

\* jobmon.IsValidJobMonitoringSeverity ("Possible values alert, warning or none").
IsValidJobMonitoringSeverity(sev) == sev \in {"alert", "warning", "none"}

JobMonitoringValidate(j, os) ==
    IF j.SpoolDirPath = <<>> THEN Err("spool_dir is empty", "")
    ELSE IF ~IsAbs(os, j.SpoolDirPath) THEN Err("spool_dir path must be absolute", "")
    ELSE IF ~IsValidJobMonitoringSeverity(j.Severity) THEN Err("severity has invalid value", "")
    ELSE Nil

\* UpdatesMonitoringConfig.Validate with the floor applied unconditionally.
UpdatesMonitoringValidateAlwaysFloor(l) ==
    IF l.FetchTimeout >= l.CheckInterval
    THEN [l |-> l, err |-> Err("fetch_timeout should be less than check_interval", "")]
    ELSE [l |-> [l EXCEPT !.CheckInterval = minSystemUpdatesCheckInterval], err |-> Nil]

\* UpdatesMonitoringConfig.Validate comparing after the floor was applied.
UpdatesMonitoringValidateFloorFirst(l) ==
    LET raised == IF l.CheckInterval < minSystemUpdatesCheckInterval
                  THEN [l EXCEPT !.CheckInterval = minSystemUpdatesCheckInterval]
                  ELSE l
    IN IF raised.FetchTimeout >= raised.CheckInterval
       THEN [l |-> raised, err |-> Err("fetch_timeout should be less than check_interval", "")]
       ELSE [l |-> raised, err |-> Nil]

\* UpdatesMonitoringConfig.Validate: [l, err].
UpdatesMonitoringValidate(l) ==
    IF l.FetchTimeout >= l.CheckInterval
    THEN [l |-> l, err |-> Err("fetch_timeout should be less than check_interval", "")]
    ELSE IF l.CheckInterval < minSystemUpdatesCheckInterval
    THEN [l |-> [l EXCEPT !.CheckInterval = minSystemUpdatesCheckInterval], err |-> Nil]
    ELSE [l |-> l, err |-> Nil]

\* mysql.Config.Validate on the class of the mysql_monitoring block: the
\* zero value and an accepted block pass, a rejected block fails.
MysqlValidate(m) == IF m = "rejected" THEN Err("mysql", "invalid") ELSE Nil

\* UpdatesConfig.Validate accepting every interval.
UpdatesValidateAccepting(u) == Nil

\* UpdatesConfig.Validate
UpdatesValidate(u) ==
    IF u.CheckInterval < minSelfUpdatesCheckInterval
    THEN Err("check_interval must be greater than 600 seconds", "")
    ELSE Nil

\* The interval floor with 30 itself rejected.
IntervalBelowMinInclusive(cfg) == cfg.Interval <= minIntervalValue
\* The two floors at the head of validate.
IntervalBelowMin(cfg) == cfg.Interval < minIntervalValue
HeartbeatBelowMin(cfg) == cfg.HeartbeatInterval < minHeartbeatIntervalValue

\* The tail of validate without the return after the first clamp.
validateRetriesBothRules(cfg) ==
    LET c1 == IF IntLess(cfg.OnHTTP5xxRetries, 0) \/ ~IntLess(cfg.OnHTTP5xxRetries, 5 + 1)
              THEN [cfg EXCEPT !.OnHTTP5xxRetries = [n |-> 5, w |-> 0]] ELSE cfg
    IN [cfg |-> IF c1.OnHTTP5xxRetryInterval < 1 \/ c1.OnHTTP5xxRetryInterval > 3
                THEN [c1 EXCEPT !.OnHTTP5xxRetryInterval = 3] ELSE c1,
        err |-> Nil]

\* The tail of validate: the two clamped retry settings, [cfg, err].
validateRetries(cfg) ==
    IF IntLess(cfg.OnHTTP5xxRetries, 0) \/ ~IntLess(cfg.OnHTTP5xxRetries, 5 + 1)
    THEN [cfg |-> [cfg EXCEPT !.OnHTTP5xxRetries = [n |-> 5, w |-> 0]], err |-> Nil]
    ELSE IF cfg.OnHTTP5xxRetryInterval < 1 \/ cfg.OnHTTP5xxRetryInterval > 3
    THEN [cfg |-> [cfg EXCEPT !.OnHTTP5xxRetryInterval = 3], err |-> Nil]
    ELSE [cfg |-> cfg, err |-> Nil]

\* Config.validate: [cfg, err], cfg being the Config as validate leaves it.
validate(cfg, os) ==
    LET c1 == IF cfg.HubProxy # <<>> /\ ~HasPrefixHTTP(cfg.HubProxy)
              THEN [cfg EXCEPT !.HubProxy = <<"h", "t", "t", "p", ":", "/", "/">> \o @]
              ELSE cfg
        sys == UpdatesMonitoringValidate(c1.SystemUpdatesChecks)
        c2 == [c1 EXCEPT !.SystemUpdatesChecks = sys.l]
    IN IF c1.HubProxy # <<>> /\ Parse(c1.HubProxy) # ""
       THEN [cfg |-> c1, err |-> Err("failed to parse 'hub_proxy' URL", "")]
       ELSE IF IntervalBelowMin(c1)
       THEN [cfg |-> c1, err |-> Err("interval value must be >= 30.0", "")]
       ELSE IF HeartbeatBelowMin(c1)
       THEN [cfg |-> c1, err |-> Err("heartbeat value must be >= 5.0", "")]
       ELSE IF ~StrInSlice(c1.OperationMode, operationModes)
       THEN [cfg |-> c1, err |-> Err("invalid operation_mode supplied", "")]
       ELSE IF GetParsedNetInterfaceMaxSpeed(c1.NetInterfaceMaxSpeed).err # Nil
       THEN [cfg |-> c1, err |-> Err("invalid net_interface_max_speed value supplied",
                                     GetParsedNetInterfaceMaxSpeed(c1.NetInterfaceMaxSpeed).err[1])]
       ELSE IF IntLess(c1.HubRequestTimeout, minHubRequestTimeout)
               \/ ~IntLess(c1.HubRequestTimeout, maxHubRequestTimeout + 1)
       THEN [cfg |-> c1, err |-> Err("hub_request_timeout must be between 1 and 600", "")]
       ELSE IF JobMonitoringValidate(c1.JobMonitoring, os) # Nil
       THEN [cfg |-> c1, err |-> Err("invalid [jobmon] config",
                                     JobMonitoringValidate(c1.JobMonitoring, os)[1])]
       ELSE IF sys.err # Nil
       THEN [cfg |-> c2, err |-> Err("invalid [system_updates_checks] config", sys.err[1])]
       ELSE IF MysqlValidate(c2.MysqlMonitoring) # Nil
       THEN [cfg |-> c2, err |-> Err("invalid [mysql_monitoring] config",
                                     MysqlValidate(c2.MysqlMonitoring)[1])]
       ELSE IF UpdatesValidate(c2.Updates) # Nil
       THEN [cfg |-> c2, err |-> Err("invalid [updates] config", UpdatesValidate(c2.Updates)[1])]
       ELSE validateRetries(c2)

\* ------------------------------------------------------------------ bounds

\* Longest initial config file of the setup pipeline, in lines.
MaxFileLines == 2
\* Longest file handed to TryUpdateConfigFromFile on its own, in lines.
MaxLoadLines == 2
\* Number of times the agent starts (HandleAllConfigSetup runs) on a path.
MaxRuns == 2
\* Longest rule-breaking config file, in lines.
MaxRuleLines == 2

\* Sequences over S of length at most n.
SeqUpTo(S, n) == UNION {[1..m -> S] : m \in 0..n}

\* ------------------------------------------------------------------- state

VARIABLES
    goos,        \* runtime.GOOS
    env,         \* the process environment: name -> <<>> or <<value>>
    fs,          \* [dir, file]: the directory and file at configFilePath
    pc,          \* position of the running call
    cfg,         \* the Config being built (cfg of HandleAllConfigSetup)
    cfg0,        \* the Config as passed to the call under way
    mvc,         \* the MinValuableConfig of the bootstrap, or of applyEnv
    mvc0,        \* the MinValuableConfig as passed to applyEnv
    force,       \* the force argument of the last applyEnv
    loadErr,     \* the error TryUpdateConfigFromFile returned
    loadedFile,  \* the file as TryUpdateConfigFromFile found it
    genCalled,   \* GenerateDefaultConfigFile was called in this run
    genBefore,   \* the file as GenerateDefaultConfigFile found it
    genErr,      \* the error GenerateDefaultConfigFile returned
    validated,   \* validate was called in this run
    ret,         \* [cfg, err]: what the call returned
    prevRet,     \* what the previous run returned
    handles,     \* file handles this process holds open
    runs,        \* runs of HandleAllConfigSetup started so far
    prevGen,     \* [called, before, env]: genCalled, genBefore, env of the previous run
    speedRet     \* [val, err]: what GetParsedNetInterfaceMaxSpeed returned

vars == <<goos, env, fs, pc, cfg, cfg0, mvc, mvc0, force, loadErr, loadedFile,
          genCalled, genBefore, genErr, validated, ret, prevRet, handles, runs,
          prevGen, speedRet>>

NoReturn == [cfg |-> Nil, err |-> Nil]
NoGen == [called |-> FALSE, before |-> Nil, env |-> NoEnv]
NoSpeed == [val |-> <<>>, err |-> Nil]

\* The parts of the state a specification does not use.
Idle ==
    /\ mvc = defaultMinValuableConfig
    /\ mvc0 = defaultMinValuableConfig
    /\ force = FALSE
    /\ loadErr = Nil
    /\ loadedFile = Nil
    /\ genCalled = FALSE
    /\ genBefore = Nil
    /\ genErr = Nil
    /\ validated = FALSE
    /\ ret = NoReturn
    /\ prevRet = NoReturn
    /\ handles = 0
    /\ runs = 0
    /\ prevGen = NoGen
    /\ speedRet = NoSpeed

\* ------------------------------------------------- inputs of the pipeline

HubTestURL == "https://hub.example"

SetupEnvs ==
    {[n \in EnvNames |-> CASE n = "CAGENT_HUB_URL" -> u
                           [] n = "CAGENT_HUB_USER" -> usr
                           [] n = "CAGENT_HUB_PASSWORD" -> pw] :
        u \in {Nil, Some(""), Some(HubTestURL)},
        usr \in {Nil, Some("agent")},
        pw \in {Nil, Some("secret")}}

SetupLines ==
    { FloatLine("interval", 30),
      IntLine("interval", 60),
      FloatLine("heartbeat", 4),
      IntLine("on_http_5xx_retries", 9),
      FloatLine("on_http_5xx_retry_interval", 5),
      StrLine("hub_url", HubTestURL),
      IntLine(DeprecatedKey, 0),
      GarbageLine }

\* A file another process writes: an empty one, and one longer than the
\* bootstrap file (eleven comment lines and a key).
LongContent ==
    [i \in 1..11 |-> DocLine("written by another process")]
    \o << FloatLine("heartbeat", 4) >>

ExternalFiles == {File("rw", <<>>), File("rw", LongContent)}

SetupFileSystems ==
    {[dir |-> d, file |-> Nil] : d \in BOOLEAN}
    \cup {[dir |-> TRUE, file |-> Some(File("rw", c))] : c \in SeqUpTo(SetupLines, MaxFileLines)}
    \cup {[dir |-> TRUE, file |-> Some(File("none", <<>>))]}

\* ------------------------------------------------ HandleAllConfigSetup

Init ==
    /\ goos \in GOOSValues
    /\ env \in SetupEnvs
    /\ fs \in SetupFileSystems
    /\ pc = "start"
    /\ cfg = NewConfig(goos)
    /\ cfg0 = NewConfig(goos)
    /\ Idle

\* The load followed by the environment overlay on the loaded Config.
SetupLoadWithEnv ==
    /\ pc = "start"
    /\ \E o \in TryUpdateConfigFromFile(NewConfig(goos), fs, goos) :
         /\ cfg' = [o.cfg EXCEPT !.MinValuableConfig = applyEnv(@, env, TRUE)]
         /\ loadErr' = o.err
         /\ handles' = handles + o.leaked
    /\ cfg0' = NewConfig(goos)
    /\ loadedFile' = fs.file
    /\ pc' = "loaded"
    /\ runs' = runs + 1
    /\ UNCHANGED <<speedRet, prevGen, goos, env, fs, mvc, mvc0, force, genCalled,
                   genBefore, genErr, validated, ret, prevRet>>

\* cfg := NewConfig(); err := TryUpdateConfigFromFile(cfg, configFilePath)
SetupLoad ==
    /\ pc = "start"
    /\ \E o \in TryUpdateConfigFromFile(NewConfig(goos), fs, goos) :
         /\ cfg' = o.cfg
         /\ loadErr' = o.err
         /\ handles' = handles + o.leaked
    /\ cfg0' = NewConfig(goos)
    /\ loadedFile' = fs.file
    /\ pc' = "loaded"
    /\ runs' = runs + 1
    /\ UNCHANGED <<speedRet, prevGen, goos, env, fs, mvc, mvc0, force, genCalled, genBefore, genErr,
                   validated, ret, prevRet>>

\* if os.IsNotExist(err): NewMinimumConfig, GenerateDefaultConfigFile, and
\* either the return of its error or cfg.MinValuableConfig = *mvc.
SetupBootstrap ==
    /\ pc = "loaded"
    /\ IsNotExist(loadErr)
    /\ \E fault \in Faults :
         LET m == NewMinimumConfig(env, goos)
             g == GenerateDefaultConfigFile(m, fs, fault)
         IN /\ mvc' = m
            /\ fs' = g.fs
            /\ genErr' = g.err
            /\ handles' = handles + g.leaked
            /\ IF g.err # Nil
               THEN /\ ret' = [cfg |-> Nil, err |-> g.err]
                    /\ pc' = "done"
                    /\ cfg' = cfg
               ELSE /\ cfg' = [cfg EXCEPT !.MinValuableConfig = m]
                    /\ pc' = "validate"
                    /\ ret' = ret
    /\ genCalled' = TRUE
    /\ genBefore' = fs.file
    /\ UNCHANGED <<speedRet, prevGen, goos, env, cfg0, mvc0, force, loadErr, loadedFile, validated,
                   prevRet, runs>>

\* else if err != nil: return nil, "Config load error: ..."
SetupLoadError ==
    /\ pc = "loaded"
    /\ ~IsNotExist(loadErr)
    /\ loadErr # Nil
    /\ ret' = [cfg |-> Nil,
               err |-> IF loadErr[2] = IntIntoFloatMsg
                       THEN Err("Config load error",
                                "please use numbers with a decimal point for numerical values")
                       ELSE Err("Config load error", loadErr[2])]
    /\ pc' = "done"
    /\ UNCHANGED <<speedRet, prevGen, goos, env, fs, cfg, cfg0, mvc, mvc0, force, loadErr, loadedFile,
                   genCalled, genBefore, genErr, validated, prevRet, handles, runs>>

\* if err = cfg.validate(); err != nil: return nil, err; return cfg, nil
SetupValidate ==
    /\ \/ pc = "validate"
       \/ pc = "loaded" /\ loadErr = Nil
    /\ LET v == validate(cfg, goos) IN
         /\ cfg' = v.cfg
         /\ ret' = IF v.err # Nil THEN [cfg |-> Nil, err |-> v.err]
                   ELSE [cfg |-> Some(v.cfg), err |-> Nil]
    /\ validated' = TRUE
    /\ pc' = "done"
    /\ UNCHANGED <<speedRet, prevGen, goos, env, fs, cfg0, mvc, mvc0, force, loadErr, loadedFile,
                   genCalled, genBefore, genErr, prevRet, handles, runs>>

\* The agent is started again on the same path with the same environment.
Restart ==
    /\ pc = "done"
    /\ runs < MaxRuns
    /\ prevRet' = ret
    /\ prevGen' = [called |-> genCalled, before |-> genBefore, env |-> env]
    /\ pc' = "start"
    /\ cfg' = NewConfig(goos)
    /\ cfg0' = NewConfig(goos)
    /\ mvc' = defaultMinValuableConfig
    /\ loadErr' = Nil
    /\ loadedFile' = Nil
    /\ genCalled' = FALSE
    /\ genBefore' = Nil
    /\ genErr' = Nil
    /\ validated' = FALSE
    /\ ret' = NoReturn
    /\ UNCHANGED <<speedRet, goos, env, fs, mvc0, force, handles, runs>>

\* Another process creates the file while HandleAllConfigSetup is between
\* its existence check and GenerateDefaultConfigFile.
ExternalCreate ==
    /\ pc = "loaded"
    /\ fs.file = Nil
    /\ \E f \in ExternalFiles : fs' = [dir |-> TRUE, file |-> Some(f)]
    /\ UNCHANGED <<speedRet, prevGen, goos, env, pc, cfg, cfg0, mvc, mvc0, force, loadErr, loadedFile,
                   genCalled, genBefore, genErr, validated, ret, prevRet, handles, runs>>

Next ==
    \/ SetupLoad
    \/ SetupBootstrap
    \/ SetupLoadError
    \/ SetupValidate
    \/ Restart
    \/ ExternalCreate

Spec == Init /\ [][Next]_vars

\* ---------------------------------------------- claims on the pipeline

IsPrefix(p, q) == Len(p) <= Len(q) /\ SubSeq(q, 1, Len(p)) = p

EnvUnset(name) == env[name] = Nil

\* The bootstrap file: the headline, then the encoded minimal key set.
BootstrapContent(os, e) ==
    configAutogeneratedHeadline
    \o << DocLine("log_level"), StrLine("log_level", "error") >>
    \o << CommentedStrLine("io_mode", IF e["CAGENT_HUB_URL"] \in {Nil, Some("")}
                                      THEN "file" ELSE "http") >>
    \o (IF e["CAGENT_HUB_URL"] \in {Nil, Some("")}
        THEN << DocLine("out_file"),
                StrLine("out_file", IF os = "windows" THEN "NUL" ELSE "/dev/null") >>
        ELSE <<>>)
    \o << CommentedStrLine("hub_url", IF e["CAGENT_HUB_URL"] = Nil THEN ""
                                      ELSE e["CAGENT_HUB_URL"][1]),
          CommentedStrLine("hub_user", IF e["CAGENT_HUB_USER"] = Nil THEN ""
                                       ELSE e["CAGENT_HUB_USER"][1]),
          CommentedStrLine("hub_password", IF e["CAGENT_HUB_PASSWORD"] = Nil THEN ""
                                           ELSE e["CAGENT_HUB_PASSWORD"][1]) >>

(* C1: HandleAllConfigSetup on a path with no file and CAGENT_HUB_URL      *)
(* unset, no system call of the generator failing, returns a Config and no *)
(* error; the file then at the path starts with the headline followed by   *)
(* the encoded minimal key set (and is exactly that when the generator     *)
(* found no file); the Config has IOMode "file" and OutFile the null       *)
(* device of the OS.                                                       *)
C1_BootstrapWithoutHubURL ==
    (/\ pc = "done"
     /\ loadedFile = Nil
     /\ genCalled
     /\ genErr = Nil
     /\ EnvUnset("CAGENT_HUB_URL"))
    => /\ ret.err = Nil
       /\ ret.cfg # Nil
       /\ fs.file # Nil
       /\ IsPrefix(BootstrapContent(goos, env), fs.file[1].content)
       /\ genBefore = Nil => fs.file[1].content = BootstrapContent(goos, env)
       /\ ret.cfg[1].MinValuableConfig.IOMode = "file"
       /\ ret.cfg[1].MinValuableConfig.OutFile = (IF goos = "windows" THEN "NUL" ELSE "/dev/null")

C1_Witness ==
    /\ pc = "done"
    /\ loadedFile = Nil
    /\ genCalled
    /\ genBefore = Nil
    /\ genErr = Nil
    /\ EnvUnset("CAGENT_HUB_URL")
    /\ ~EnvUnset("CAGENT_HUB_USER")
    /\ ret.cfg # Nil
    /\ fs.file # Nil

(* C2 (as claimed): whenever GenerateDefaultConfigFile is called while a   *)
(* file exists at configFilePath, it returns an error and leaves the file  *)
(* as it found it.                                                         *)
C2_GenerateRefusesExistingFile ==
    (genCalled /\ genBefore # Nil) => (genErr # Nil /\ fs.file = genBefore)

(* C3: the bootstrap generator runs only when the load reported that the   *)
(* path does not exist; when the file exists and cannot be opened or       *)
(* decoded, the call returns a nil Config and a "Config load error",       *)
(* writes nothing and does not validate.                                   *)
C3_BootstrapOnlyWhenMissing ==
    /\ genCalled => (loadErr = ErrNotExist /\ loadedFile = Nil)
    /\ (pc = "done" /\ loadedFile # Nil /\ loadErr # Nil)
       => /\ ret.cfg = Nil
          /\ ret.err # Nil
          /\ ret.err[1] = "Config load error"
          /\ ~genCalled
          /\ ~validated
          /\ fs.file = loadedFile

C3_Witness ==
    /\ pc = "done"
    /\ loadedFile # Nil
    /\ loadedFile[1].perm = "rw"
    /\ loadErr # Nil
    /\ ret.err = Err("Config load error",
                     "please use numbers with a decimal point for numerical values")

\* The keys the loaded file set: the keys present in it and, on windows,
\* the two the deprecated key migrates into.
SetByFile(k) ==
    /\ loadedFile # Nil
    /\ \/ k \in PresentKeys(loadedFile[1].content)
       \/ /\ goos = "windows"
          /\ DeprecatedKey \in PresentKeys(loadedFile[1].content)
          /\ k \in {"system_updates_checks.enabled", "system_updates_checks.check_interval"}

\* The keys the environment set: on the bootstrap path, those of the three
\* variables that are set.
SetByEnv(k) ==
    /\ genCalled
    /\ \/ k = "hub_url" /\ ~EnvUnset("CAGENT_HUB_URL")
       \/ k = "hub_user" /\ ~EnvUnset("CAGENT_HUB_USER")
       \/ k = "hub_password" /\ ~EnvUnset("CAGENT_HUB_PASSWORD")

DefaultLists(c, os) ==
    /\ c.CPULoadDataGather = (IF os = "windows" THEN <<>> ELSE <<"avg1">>)
    /\ c.CPUUtilTypes = (IF os = "windows" THEN <<"user", "system", "idle">>
                         ELSE <<"user", "system", "idle", "iowait">>)
    /\ c.VirtualMachinesStat = (IF os = "windows" THEN <<"hyper-v">> ELSE <<>>)
    /\ Len(c.FSMetrics) = (IF os \in {"windows", "darwin"} THEN 7 ELSE 8)
    /\ Len(c.NetInterfaceExcludeRegex) = (IF os = "windows" THEN 5 ELSE 4)

(* C5 (as claimed): in every returned Config, each field set neither by a  *)
(* key of the file nor by one of the three environment variables has the   *)
(* value NewConfig gives it, io_mode and out_file included.                *)
C5_UnsetFieldsKeepDefault ==
    (pc = "done" /\ ret.cfg # Nil)
    => /\ \A k \in ConfigKeys :
            (~SetByFile(k) /\ ~SetByEnv(k))
            => Get(ret.cfg[1], k) = Get(NewConfig(goos), k)
       /\ DefaultLists(ret.cfg[1], goos)

(* C5 (amended): the same, except that on the bootstrap path with an empty *)
(* hub URL io_mode is "file" and out_file is the null device.              *)
C5_UnsetFieldsKeepDefaultExceptBootstrapSink ==
    (pc = "done" /\ ret.cfg # Nil)
    => /\ \A k \in ConfigKeys :
            (~SetByFile(k) /\ ~SetByEnv(k))
            => IF genCalled /\ ret.cfg[1].MinValuableConfig.HubURL = ""
                  /\ k \in {"io_mode", "out_file"}
               THEN Get(ret.cfg[1], k) =
                      (IF k = "io_mode" THEN StrLine(k, "file")
                       ELSE StrLine(k, IF goos = "windows" THEN "NUL" ELSE "/dev/null"))
               ELSE Get(ret.cfg[1], k) = Get(NewConfig(goos), k)
       /\ DefaultLists(ret.cfg[1], goos)

C5_Witness ==
    /\ pc = "done"
    /\ ret.cfg # Nil
    /\ loadedFile # Nil
    /\ PresentKeys(loadedFile[1].content) = {"on_http_5xx_retries", "hub_url"}
    /\ ret.cfg[1].OnHTTP5xxRetries = [n |-> 5, w |-> 0]
    /\ ret.cfg[1].SystemUpdatesChecks.CheckInterval = 14400

\* ------------------------------------------------ file handles and returns

(* C15 (as claimed): every file handle the pipeline opens is closed by the *)
(* function that opened it on each of its exit paths, so that no handle is *)
(* open when HandleAllConfigSetup has returned.                            *)
C15_HandlesClosed ==
    pc = "done" => handles = 0

(* C17 (as claimed): when a run of HandleAllConfigSetup has generated the  *)
(* bootstrap file for a missing path and returned a Config, the next run   *)
(* on the same path with the same environment returns an equal Config.     *)
C17_RestartStable ==
    (/\ pc = "done"
     /\ runs >= 2
     /\ prevGen.called
     /\ prevGen.before = Nil
     /\ prevRet.cfg # Nil)
    => ret = prevRet

\* ------------------------------------- TryUpdateConfigFromFile on its own

LoadLines ==
    { IntLine(DeprecatedKey, 0),
      IntLine(DeprecatedKey, -5),
      IntLine(DeprecatedKey, 7200),
      WideIntLine(DeprecatedKey, 1, 7200),
      StrLine(DeprecatedKey, "7200"),
      BoolLine("system_updates_checks.enabled", TRUE),
      IntLine("system_updates_checks.check_interval", 3600),
      IntLine("system_updates_checks.check_interval", -1),
      FloatLine("interval", 45),
      IntLine("interval", 45),
      StrLine("hub_url", HubTestURL),
      GarbageLine }

LoadFileSystems ==
    {[dir |-> TRUE, file |-> Nil]}
    \cup {[dir |-> TRUE, file |-> Some(File("rw", c))] : c \in SeqUpTo(LoadLines, MaxLoadLines)}
    \cup {[dir |-> TRUE, file |-> Some(File("none", <<>>))]}

\* A file merged earlier onto the defaults.
PreviousContent ==
    << BoolLine("system_updates_checks.enabled", FALSE),
       IntLine("system_updates_checks.check_interval", 900),
       FloatLine("interval", 120),
       StrLine("hub_url", "https://old.example") >>

\* The Configs handed to TryUpdateConfigFromFile: the defaults, and the
\* defaults with an earlier file merged.
BaseConfigs(os) ==
    {NewConfig(os), ApplyFrom(NewConfig(os), PreviousContent, 1..Len(PreviousContent), 1)}

InitLoad ==
    /\ goos \in GOOSValues
    /\ env = NoEnv
    /\ fs \in LoadFileSystems
    /\ pc = "call"
    /\ cfg \in BaseConfigs(goos)
    /\ cfg0 = cfg
    /\ Idle

LoadCall ==
    /\ pc = "call"
    /\ \E o \in TryUpdateConfigFromFile(cfg, fs, goos) :
         /\ cfg' = o.cfg
         /\ loadErr' = o.err
         /\ handles' = handles + o.leaked
    /\ loadedFile' = fs.file
    /\ pc' = "returned"
    /\ UNCHANGED <<speedRet, prevGen, goos, env, fs, cfg0, mvc, mvc0, force, genCalled, genBefore, genErr,
                   validated, ret, prevRet, runs>>

NextLoad == LoadCall

SpecLoad == InitLoad /\ [][NextLoad]_vars

\* The content of the file the call read (empty when it read none).
LoadedContent == IF loadedFile = Nil THEN <<>> ELSE loadedFile[1].content

ListsUnchanged ==
    /\ cfg.CPULoadDataGather = cfg0.CPULoadDataGather
    /\ cfg.CPUUtilTypes = cfg0.CPUUtilTypes
    /\ cfg.FSMetrics = cfg0.FSMetrics
    /\ cfg.NetInterfaceExcludeRegex = cfg0.NetInterfaceExcludeRegex
    /\ cfg.VirtualMachinesStat = cfg0.VirtualMachinesStat

\* The line of the deprecated key in the file read (there is one).
DeprecatedLine ==
    LoadedContent[CHOOSE i \in 1..Len(LoadedContent) :
                    LoadedContent[i].kind = "key" /\ LoadedContent[i].k = DeprecatedKey]

DeprecatedPresent == DeprecatedKey \in PresentKeys(LoadedContent)

(* C4 (as claimed): TryUpdateConfigFromFile changes only the fields whose  *)
(* keys are present in the file; when the path does not exist it returns   *)
(* a not-exist error and changes nothing.                                  *)
C4_OnlyPresentKeysChange ==
    pc = "returned"
    => /\ \A k \in ConfigKeys :
            k \notin PresentKeys(LoadedContent) => Get(cfg, k) = Get(cfg0, k)
       /\ ListsUnchanged
       /\ loadedFile = Nil => (loadErr = ErrNotExist /\ cfg = cfg0)

(* C4 (amended): the same, except that on windows a load that succeeds on  *)
(* a file holding the deprecated key sets system_updates_checks.enabled to *)
(* false (value <= 0) or system_updates_checks.check_interval to the value *)
(* converted to uint32 (value > 0: the value itself below 2^32, the value  *)
(* modulo 2^32 above, which is the low word n of the line w * 2^32 + n),   *)
(* whether or not those keys are present.                                  *)
C4_OnlyPresentKeysChangeExceptMigration ==
    pc = "returned"
    => /\ \A k \in ConfigKeys :
            k \notin PresentKeys(LoadedContent)
            => IF goos = "windows" /\ loadErr = Nil /\ DeprecatedPresent
                  /\ k = "system_updates_checks.enabled"
                  /\ DeprecatedLine.w = 0 /\ DeprecatedLine.n <= 0
               THEN cfg.SystemUpdatesChecks.Enabled = FALSE
               ELSE IF goos = "windows" /\ loadErr = Nil /\ DeprecatedPresent
                       /\ k = "system_updates_checks.check_interval"
                       /\ (DeprecatedLine.w > 0 \/ DeprecatedLine.n > 0)
               THEN cfg.SystemUpdatesChecks.CheckInterval = DeprecatedLine.n
               ELSE Get(cfg, k) = Get(cfg0, k)
       /\ ListsUnchanged
       /\ loadedFile = Nil => (loadErr = ErrNotExist /\ cfg = cfg0)

C4_Witness ==
    /\ pc = "returned"
    /\ loadErr = Nil
    /\ PresentKeys(LoadedContent) = {"interval", "hub_url"}
    /\ cfg0.Interval = 120
    /\ cfg.Interval = 45
    /\ cfg.SystemUpdatesChecks.CheckInterval = 900

OnlyDeprecatedKey == PresentKeys(LoadedContent) = {DeprecatedKey}

(* C6 (as claimed): loading a file that holds only the deprecated key      *)
(* leaves SystemUpdatesChecks.Enabled false when its value is <= 0 and     *)
(* SystemUpdatesChecks.CheckInterval equal to the value when it is > 0.    *)
C6_MigrationByPresence ==
    (pc = "returned" /\ loadErr = Nil /\ OnlyDeprecatedKey)
    => IF DeprecatedLine.w = 0 /\ DeprecatedLine.n <= 0
       THEN cfg.SystemUpdatesChecks.Enabled = FALSE
       ELSE DeprecatedLine.w = 0 /\ cfg.SystemUpdatesChecks.CheckInterval = DeprecatedLine.n

(* C6 (amended): on windows, loading a file that holds only the deprecated *)
(* key leaves Enabled false when the value is <= 0 and CheckInterval equal *)
(* to the value reduced modulo 2^32 (the value itself below 2^32) when it  *)
(* is > 0; on any other OS the key changes neither field.                  *)
C6_MigrationByPresenceOnWindows ==
    (pc = "returned" /\ loadErr = Nil /\ OnlyDeprecatedKey)
    => IF goos = "windows"
       THEN IF DeprecatedLine.w = 0 /\ DeprecatedLine.n <= 0
            THEN /\ cfg.SystemUpdatesChecks.Enabled = FALSE
                 /\ cfg.SystemUpdatesChecks.CheckInterval = cfg0.SystemUpdatesChecks.CheckInterval
            ELSE /\ cfg.SystemUpdatesChecks.CheckInterval = DeprecatedLine.n
                 /\ cfg.SystemUpdatesChecks.Enabled = cfg0.SystemUpdatesChecks.Enabled
       ELSE cfg.SystemUpdatesChecks = cfg0.SystemUpdatesChecks

C6_Witness ==
    /\ pc = "returned"
    /\ loadErr = Nil
    /\ OnlyDeprecatedKey
    /\ goos = "windows"
    /\ DeprecatedLine.n = 0
    /\ cfg0.SystemUpdatesChecks.Enabled = TRUE
    /\ cfg.SystemUpdatesChecks.Enabled = FALSE

\* The line of key k in the file read (there is one).
LineOf(k) ==
    LoadedContent[CHOOSE i \in 1..Len(LoadedContent) :
                    LoadedContent[i].kind = "key" /\ LoadedContent[i].k = k]

(* C7 (as claimed): when the file holds the deprecated key and the current *)
(* keys system_updates_checks.enabled / check_interval, the current keys   *)
(* hold the values the file gave them after the load.                      *)
C7_MigrationKeepsNewKeys ==
    (pc = "returned" /\ loadErr = Nil /\ DeprecatedPresent)
    => /\ "system_updates_checks.enabled" \in PresentKeys(LoadedContent)
          => cfg.SystemUpdatesChecks.Enabled = LineOf("system_updates_checks.enabled").b
       /\ "system_updates_checks.check_interval" \in PresentKeys(LoadedContent)
          => cfg.SystemUpdatesChecks.CheckInterval
               = LineOf("system_updates_checks.check_interval").n

\* ------------------------------------------------------ validate on its own

SpeedOK == <<"1", "2", "5", "M">>
SpeedBadUnit == <<"5", "X">>

\* Proxies: "px:80", which gets the scheme prepended and parses; "http-px:x",
\* which starts with "http" and parses as it stands; "px:x", which gets the
\* scheme prepended and has no valid port.
ProxyNoScheme == <<"p", "x", ":", "8", "0">>
ProxyHTTPDash == <<"h", "t", "t", "p", "-", "p", "x", ":", "x">>
ProxyBadPort == <<"p", "x", ":", "x">>
\* A spool directory that is not absolute on any OS.
SpoolDirRelative == <<"s", "p", "o", "o", "l">>
\* A spool directory that is absolute on unix only.
SpoolDirTmp == <<"/", "t", "m", "p">>

\* The Configs handed to validate: the defaults of the OS with the fields
\* validate reads set, as a file can set them, to values on both sides of
\* each rule.
ValidateInputs(os) ==
    { [NewConfig(os) EXCEPT
         !.Interval = iv,
         !.HeartbeatInterval = hb,
         !.OnHTTP5xxRetries = [n |-> rt, w |-> 0],
         !.OnHTTP5xxRetryInterval = ri,
         !.OperationMode = om,
         !.HubRequestTimeout = [n |-> to, w |-> 0],
         !.SystemUpdatesChecks.FetchTimeout = su[1],
         !.SystemUpdatesChecks.CheckInterval = su[2],
         !.Updates.CheckInterval = self,
         !.NetInterfaceMaxSpeed = sp,
         !.JobMonitoring.SpoolDirPath = spool,
         !.MysqlMonitoring = my,
         !.HubProxy = px] :
        iv \in {29, 30}, hb \in {4, 5},
        rt \in {-1, 4, 6}, ri \in {0, 2, 4},
        om \in {"heartbeat", "bogus"},
        to \in {0, 600, 601},
        su \in {<<30, 14400>>, <<30, 100>>, <<300, 300>>, <<200, 100>>},
        self \in {599, 600, 601},
        sp \in {<<>>, SpeedOK, SpeedBadUnit},
        spool \in {NewConfig(os).JobMonitoring.SpoolDirPath, SpoolDirRelative},
        my \in {"zero", "rejected"},
        px \in {<<>>, ProxyNoScheme, ProxyBadPort} }

InitValidate ==
    /\ goos \in GOOSValues
    /\ env = NoEnv
    /\ fs = [dir |-> TRUE, file |-> Nil]
    /\ pc = "call"
    /\ cfg \in ValidateInputs(goos)
    /\ cfg0 = cfg
    /\ Idle

ValidateCall ==
    /\ pc = "call"
    /\ LET v == validate(cfg, goos) IN
         /\ cfg' = v.cfg
         /\ ret' = [cfg |-> Nil, err |-> v.err]
    /\ validated' = TRUE
    /\ pc' = "returned"
    /\ UNCHANGED <<speedRet, prevGen, goos, env, fs, cfg0, mvc, mvc0, force, loadErr, loadedFile,
                   genCalled, genBefore, genErr, prevRet, handles, runs>>

NextValidate == ValidateCall

SpecValidate == InitValidate /\ [][NextValidate]_vars

\* The hard rules other than the two floors, on the Config as passed in.
OtherFieldsValid(c, os) ==
    /\ c.HubProxy \in {<<>>, ProxyNoScheme}
    /\ c.OperationMode \in {"full", "minimal", "heartbeat"}
    /\ c.NetInterfaceMaxSpeed \in {<<>>, <<"1", "2", "5", "M">>}
    /\ c.HubRequestTimeout.w = 0
    /\ c.HubRequestTimeout.n >= 1 /\ c.HubRequestTimeout.n <= 600
    /\ c.JobMonitoring.SpoolDirPath = NewConfig(os).JobMonitoring.SpoolDirPath
    /\ c.JobMonitoring.Severity \in {"alert", "warning", "none"}
    /\ c.SystemUpdatesChecks.FetchTimeout < c.SystemUpdatesChecks.CheckInterval
    /\ c.MysqlMonitoring # "rejected"
    /\ c.Updates.CheckInterval >= 600

(* C9: validate fails for every Config whose interval is < 30 or whose     *)
(* heartbeat is < 5, and succeeds, all other fields being valid, when the  *)
(* interval is exactly 30 and the heartbeat exactly 5.                     *)
C9_IntervalFloors ==
    pc = "returned"
    => /\ (cfg0.Interval < 30 \/ cfg0.HeartbeatInterval < 5) => ret.err # Nil
       /\ (cfg0.Interval = 30 /\ cfg0.HeartbeatInterval = 5 /\ OtherFieldsValid(cfg0, goos))
          => ret.err = Nil

C9_Witness ==
    /\ pc = "returned"
    /\ cfg0.Interval = 30
    /\ cfg0.HeartbeatInterval = 5
    /\ OtherFieldsValid(cfg0, goos)
    /\ cfg0.OnHTTP5xxRetries = [n |-> 4, w |-> 0]
    /\ ret.err = Nil

(* C10: when no hard rule is violated and on_http_5xx_retries is outside   *)
(* [0,5], validate sets it to 5 and succeeds, and                          *)
(* on_http_5xx_retry_interval keeps its value, also outside [1,3].         *)
C10_RetriesClampSkipsInterval ==
    (/\ pc = "returned"
     /\ cfg0.Interval >= 30
     /\ cfg0.HeartbeatInterval >= 5
     /\ OtherFieldsValid(cfg0, goos)
     /\ (cfg0.OnHTTP5xxRetries.w > 0 \/ cfg0.OnHTTP5xxRetries.n < 0
            \/ cfg0.OnHTTP5xxRetries.n > 5))
    => /\ ret.err = Nil
       /\ cfg.OnHTTP5xxRetries = [n |-> 5, w |-> 0]
       /\ cfg.OnHTTP5xxRetryInterval = cfg0.OnHTTP5xxRetryInterval

C10_Witness ==
    /\ pc = "returned"
    /\ OtherFieldsValid(cfg0, goos)
    /\ cfg0.Interval = 30
    /\ cfg0.OnHTTP5xxRetries = [n |-> 6, w |-> 0]
    /\ cfg0.OnHTTP5xxRetryInterval = 4
    /\ cfg.OnHTTP5xxRetries = [n |-> 5, w |-> 0]
    /\ cfg.OnHTTP5xxRetryInterval = 4
    /\ ret.err = Nil

(* C11 (as claimed): whenever validate succeeds, on_http_5xx_retry_interval *)
(* lies in [1,3], and it is 3 when the value passed in was outside [1,3].  *)
C11_RetryIntervalClamped ==
    (pc = "returned" /\ ret.err = Nil)
    => /\ cfg.OnHTTP5xxRetryInterval >= 1
       /\ cfg.OnHTTP5xxRetryInterval <= 3
       /\ (cfg0.OnHTTP5xxRetryInterval < 1 \/ cfg0.OnHTTP5xxRetryInterval > 3)
          => cfg.OnHTTP5xxRetryInterval = 3

\* The rules validate evaluates before the system_updates_checks block, on
\* the Config as passed in.
RulesBeforeSystemUpdatesPass(c, os) ==
    /\ c.HubProxy \in {<<>>, ProxyNoScheme}
    /\ c.Interval >= 30
    /\ c.HeartbeatInterval >= 5
    /\ c.OperationMode \in {"full", "minimal", "heartbeat"}
    /\ c.NetInterfaceMaxSpeed \in {<<>>, <<"1", "2", "5", "M">>}
    /\ c.HubRequestTimeout.w = 0
    /\ c.HubRequestTimeout.n >= 1 /\ c.HubRequestTimeout.n <= 600
    /\ c.JobMonitoring.SpoolDirPath = NewConfig(os).JobMonitoring.SpoolDirPath
    /\ c.JobMonitoring.Severity \in {"alert", "warning", "none"}

SystemUpdatesPrefix == "invalid [system_updates_checks] config"

(* C12: validate never changes fetch_timeout.  When fetch_timeout >=        *)
(* check_interval, on the values passed in, validate fails, with the       *)
(* [system_updates_checks] error once the rules before it pass, and        *)
(* check_interval keeps its value.  Otherwise the [system_updates_checks]  *)
(* error is not returned, and once the rules before it pass a              *)
(* check_interval below 300 has become 300 and any other is unchanged.     *)
C12_SystemUpdatesRule ==
    pc = "returned"
    => LET f == cfg0.SystemUpdatesChecks.FetchTimeout
           c == cfg0.SystemUpdatesChecks.CheckInterval
           reached == RulesBeforeSystemUpdatesPass(cfg0, goos)
       IN /\ cfg.SystemUpdatesChecks.FetchTimeout = f
          /\ f >= c => /\ ret.err # Nil
                       /\ reached => ret.err[1] = SystemUpdatesPrefix
                       /\ cfg.SystemUpdatesChecks.CheckInterval = c
          /\ f < c => /\ ret.err = Nil \/ ret.err[1] # SystemUpdatesPrefix
                      /\ reached => cfg.SystemUpdatesChecks.CheckInterval
                                      = (IF c < 300 THEN 300 ELSE c)

C12_Witness ==
    /\ pc = "returned"
    /\ RulesBeforeSystemUpdatesPass(cfg0, goos)
    /\ cfg0.SystemUpdatesChecks.FetchTimeout = 30
    /\ cfg0.SystemUpdatesChecks.CheckInterval = 100
    /\ cfg.SystemUpdatesChecks.FetchTimeout = 30
    /\ cfg.SystemUpdatesChecks.CheckInterval = 300
    /\ cfg0.Updates.CheckInterval = 601
    /\ cfg0.MysqlMonitoring = "zero"
    /\ ret.err = Nil

\* The rules validate evaluates before the self_update block.
RulesBeforeSelfUpdatePass(c, os) ==
    /\ RulesBeforeSystemUpdatesPass(c, os)
    /\ c.SystemUpdatesChecks.FetchTimeout < c.SystemUpdatesChecks.CheckInterval
    /\ c.MysqlMonitoring # "rejected"

SelfUpdatePrefix == "invalid [updates] config"

(* C13 (as claimed): validate fails for every Config whose                 *)
(* self_update.check_interval is <= 600, with the self-update error once   *)
(* the rules before it pass, and a value > 600 never draws that error.     *)
C13_SelfUpdateIntervalMustExceedFloor ==
    pc = "returned"
    => /\ cfg0.Updates.CheckInterval <= 600
          => /\ ret.err # Nil
             /\ RulesBeforeSelfUpdatePass(cfg0, goos) => ret.err[1] = SelfUpdatePrefix
       /\ cfg0.Updates.CheckInterval > 600
          => (ret.err = Nil \/ ret.err[1] # SelfUpdatePrefix)

\* ------------------------------------------------------ applyEnv on its own

AllEnvs == [EnvNames -> {Nil, Some(""), Some("from-env")}]

MvcInputs ==
    {[defaultMinValuableConfig EXCEPT !.HubURL = u, !.HubUser = usr, !.HubPassword = pw] :
        u \in {"", "https://old.example"}, usr \in {"", "old-user"}, pw \in {"", "old-pw"}}

InitEnv ==
    /\ goos \in GOOSValues
    /\ env \in AllEnvs
    /\ fs = [dir |-> TRUE, file |-> Nil]
    /\ pc = "call"
    /\ cfg = NewConfig(goos)
    /\ cfg0 = NewConfig(goos)
    /\ mvc \in MvcInputs
    /\ mvc0 = mvc
    /\ force = FALSE
    /\ loadErr = Nil
    /\ loadedFile = Nil
    /\ genCalled = FALSE
    /\ genBefore = Nil
    /\ genErr = Nil
    /\ validated = FALSE
    /\ ret = NoReturn
    /\ prevRet = NoReturn
    /\ handles = 0
    /\ runs = 0
    /\ prevGen = NoGen
    /\ speedRet = NoSpeed

ApplyEnvCall ==
    /\ pc = "call"
    /\ \E f \in BOOLEAN :
         /\ force' = f
         /\ mvc' = applyEnv(mvc, env, f)
    /\ pc' = "returned"
    /\ UNCHANGED <<speedRet, prevGen, goos, env, fs, cfg, cfg0, mvc0, loadErr, loadedFile, genCalled,
                   genBefore, genErr, validated, ret, prevRet, handles, runs>>

NextEnv == ApplyEnvCall

SpecEnv == InitEnv /\ [][NextEnv]_vars

\* What applyEnv(force) is to leave in a field holding `before`, `look`
\* being the variable (<<>> when unset).
EnvExpected(before, look) ==
    IF look # Nil /\ (force \/ before = "") THEN look[1] ELSE before

(* C8: applyEnv(force) sets each of HubURL, HubUser, HubPassword to its    *)
(* variable's value when the variable is set and either force is true or   *)
(* the field is empty, leaves it unchanged otherwise, and changes no other *)
(* field.                                                                  *)
C8_ApplyEnv ==
    pc = "returned"
    => /\ mvc.HubURL = EnvExpected(mvc0.HubURL, env["CAGENT_HUB_URL"])
       /\ mvc.HubUser = EnvExpected(mvc0.HubUser, env["CAGENT_HUB_USER"])
       /\ mvc.HubPassword = EnvExpected(mvc0.HubPassword, env["CAGENT_HUB_PASSWORD"])
       /\ mvc.LogLevel = mvc0.LogLevel
       /\ mvc.IOMode = mvc0.IOMode
       /\ mvc.OutFile = mvc0.OutFile

C8_Witness ==
    /\ pc = "returned"
    /\ force
    /\ mvc0.HubURL = "https://old.example"
    /\ env["CAGENT_HUB_URL"] = Some("from-env")
    /\ mvc.HubURL = "from-env"
    /\ env["CAGENT_HUB_USER"] = Nil
    /\ mvc.HubUser = "old-user"
    /\ mvc0.HubPassword = "old-pw"
    /\ env["CAGENT_HUB_PASSWORD"] = Some("")
    /\ mvc.HubPassword = ""

\* ------------------------------- GetParsedNetInterfaceMaxSpeed on its own

\* Longest net_interface_max_speed string built from SpeedAlphabet.
MaxSpeedLen == 3

SpeedAlphabet == {"0", "1", "5", ".", "-", "K", "G", "X"}

\* The strings of the documentation and of the tests, and some longer ones.
SpeedExamples ==
    { <<"1", "2", "5", "M">>,
      <<"1", "2", ".", "5", "M">>,
      <<"1", "2", ".", "5", "G">>,
      <<"5", "X">>,
      <<"a", "b", "c">>,
      <<"+", "5", "K">>,
      <<"1", "e", "3", "K">>,
      <<"1", ".", "0", "0", "1", "K">>,
      <<"0", ".", "0", "0", "0", "1", "K">>,
      <<"1", "e", "1", "9", "K">>,
      <<"1", "e", "4", "0", "0", "K">>,
      <<"2", "e", "-", "3", "2", "4", "K">>,
      <<"N", "a", "N", "K">>,
      <<"I", "n", "f", "M">>,
      <<"-", "I", "n", "f", "K">>,
      <<"0", "x", "1", "p", "4", "K">>,
      <<"1", "_", "0", "K">>,
      <<"1", "_", "K">> }

SpeedInputs == SeqUpTo(SpeedAlphabet, MaxSpeedLen) \cup SpeedExamples

InitSpeed ==
    /\ goos = "linux"
    /\ env = NoEnv
    /\ fs = [dir |-> TRUE, file |-> Nil]
    /\ pc = "call"
    /\ \E v \in SpeedInputs : cfg = [NewConfig(goos) EXCEPT !.NetInterfaceMaxSpeed = v]
    /\ cfg0 = cfg
    /\ Idle

SpeedCall ==
    /\ pc = "call"
    /\ LET r == GetParsedNetInterfaceMaxSpeed(cfg.NetInterfaceMaxSpeed)
       IN \E x \in r.vals : speedRet' = [val |-> x, err |-> r.err]
    /\ pc' = "returned"
    /\ UNCHANGED <<prevGen, goos, env, fs, cfg, cfg0, mvc, mvc0, force, loadErr,
                   loadedFile, genCalled, genBefore, genErr, validated, ret, prevRet,
                   handles, runs>>

NextSpeed == SpeedCall

SpecSpeed == InitSpeed /\ [][NextSpeed]_vars

RECURSIVE Mantissa(_, _, _)
\* The natural spelled by the digits of str from position i on, after acc.
Mantissa(str, i, acc) ==
    IF i > Len(str) THEN acc
    ELSE IF str[i] \notin Digits \/ (acc = <<>> /\ str[i] = "0")
    THEN Mantissa(str, i + 1, acc)
    ELSE Mantissa(str, i + 1, BigAddSmall(BigMulSmall(acc, 10), DigitVal(str[i])))

RECURSIVE ExponentValue(_, _, _)
\* The integer spelled by the digits of str from position i on, after acc.
ExponentValue(str, i, acc) ==
    IF i > Len(str) THEN acc
    ELSE ExponentValue(str, i + 1, acc * 10 + DigitVal(str[i]))

(* The claim's <positive decimal>, read generously: an optional "+",       *)
(* digits with at most one point, an optional exponent, and a value above  *)
(* zero.  [ok, mant, p]: the number is mant * 10^p.                        *)
PositiveDecimal(str) ==
    LET body == IF Len(str) > 0 /\ str[1] = "+" THEN SubSeq(str, 2, Len(str)) ELSE str
        epos == {i \in 1..Len(body) : body[i] \in {"e", "E"}}
        cut == IF epos = {} THEN Len(body) + 1
               ELSE CHOOSE i \in epos : \A j \in epos : i <= j
        num == SubSeq(body, 1, cut - 1)
        exp == SubSeq(body, cut + 1, Len(body))
        esigned == Len(exp) > 0 /\ exp[1] \in {"+", "-"}
        edigits == IF esigned THEN SubSeq(exp, 2, Len(exp)) ELSE exp
        dots == {i \in 1..Len(num) : num[i] = "."}
        digs == {i \in 1..Len(num) : num[i] \in Digits}
        ev == IF epos = {} THEN 0
              ELSE IF esigned /\ exp[1] = "-" THEN -ExponentValue(edigits, 1, 0)
              ELSE ExponentValue(edigits, 1, 0)
    IN [ok |-> /\ \A i \in 1..Len(num) : num[i] \in Digits \cup {"."}
               /\ Cardinality(dots) <= 1
               /\ \E i \in digs : num[i] # "0"
               /\ epos # {} => /\ edigits # <<>>
                               /\ Len(edigits) <= 2
                               /\ \A i \in 1..Len(edigits) : edigits[i] \in Digits,
        mant |-> Mantissa(num, 1, <<>>),
        p |-> ev - Cardinality({i \in digs : \E d \in dots : i > d})]

UnitPower(u) == CASE u = "K" -> 3 [] u = "M" -> 6 [] u = "G" -> 9

\* The number times 1000, 1000^2 or 1000^3, in whole bytes per second.
ExactSpeed(v) ==
    LET d == PositiveDecimal(SubSeq(v, 1, Len(v) - 1))
        p == d.p + UnitPower(v[Len(v)])
    IN IF p >= 0 THEN BigMulPow10(d.mant, p) ELSE BigDivPow10(d.mant, -p, FALSE).q

(* C14 (as claimed): GetParsedNetInterfaceMaxSpeed returns 0 and no error  *)
(* for the empty string; the number times 1000, 1000^2 or 1000^3 and no    *)
(* error for <positive decimal><unit> with unit K, M or G; and an error    *)
(* for every other string.                                                 *)
C14_ParsedMaxSpeed ==
    pc = "returned"
    => LET v == cfg.NetInterfaceMaxSpeed
           shaped == /\ Len(v) >= 2
                     /\ v[Len(v)] \in {"K", "M", "G"}
                     /\ PositiveDecimal(SubSeq(v, 1, Len(v) - 1)).ok
       IN /\ v = <<>> => (speedRet.err = Nil /\ speedRet.val = <<>>)
          /\ shaped => (speedRet.err = Nil /\ speedRet.val = ExactSpeed(v))
          /\ (v # <<>> /\ ~shaped) => speedRet.err # Nil

\* ------------------------------- the pipeline on files that break the rules

\* Lines on both sides of each rule of validate.
RuleLines ==
    { FloatLine("interval", 29),
      IntLine("interval", 60),
      FloatLine("heartbeat", 4),
      StrLine("operation_mode", "bogus"),
      StrLine("operation_mode", "minimal"),
      IntLine("hub_request_timeout", 0),
      IntLine("hub_request_timeout", 601),
      WideIntLine("hub_request_timeout", 1, 5),
      PiecesLine("net_interface_max_speed", SpeedOK),
      PiecesLine("net_interface_max_speed", SpeedBadUnit),
      PiecesLine("jobmon.spool_dir", <<>>),
      PiecesLine("jobmon.spool_dir", SpoolDirRelative),
      PiecesLine("jobmon.spool_dir", SpoolDirTmp),
      PiecesLine("hub_proxy", ProxyHTTPDash),
      PiecesLine("hub_proxy", ProxyBadPort),
      IntLine("system_updates_checks.fetch_timeout", 400),
      IntLine("system_updates_checks.check_interval", 100),
      IntLine("self_update.check_interval", 599),
      IntLine("self_update.check_interval", 600),
      IntLine("on_http_5xx_retries", 9),
      IntLine("on_http_5xx_retries", -1),
      WideIntLine("on_http_5xx_retries", 2, 3),
      FloatLine("on_http_5xx_retry_interval", 5),
      IntLine(DeprecatedKey, 20) }

RuleFileSystems ==
    {[dir |-> TRUE, file |-> Nil]}
    \cup {[dir |-> TRUE, file |-> Some(File("rw", c))] : c \in SeqUpTo(RuleLines, MaxRuleLines)}

RuleEnvs == {e \in SetupEnvs : e["CAGENT_HUB_USER"] = Nil /\ e["CAGENT_HUB_PASSWORD"] = Nil}

InitRules ==
    /\ goos \in GOOSValues
    /\ env \in RuleEnvs
    /\ fs \in RuleFileSystems
    /\ pc = "start"
    /\ cfg = NewConfig(goos)
    /\ cfg0 = NewConfig(goos)
    /\ Idle

SpecRules == InitRules /\ [][Next]_vars

(* C16: HandleAllConfigSetup returns a Config or an error, never both and  *)
(* never neither, and a Config it returns has interval >= 30, heartbeat    *)
(* >= 5, an operation_mode among full, minimal and heartbeat,              *)
(* hub_request_timeout in [1,600], a net_interface_max_speed that is empty *)
(* or parses, a jobmon spool_dir that is non-empty and absolute,           *)
(* fetch_timeout < check_interval and check_interval >= 300 in             *)
(* system_updates_checks, self_update.check_interval >= 600 and            *)
(* on_http_5xx_retries in [0,5].                                           *)
C16_ReturnedConfigSatisfiesRules ==
    pc = "done"
    => /\ (ret.cfg = Nil) # (ret.err = Nil)
       /\ ret.cfg # Nil
          => LET c == ret.cfg[1]
             IN /\ c.Interval >= 30
                /\ c.HeartbeatInterval >= 5
                /\ c.OperationMode \in {"full", "minimal", "heartbeat"}
                /\ c.HubRequestTimeout.w = 0
                /\ c.HubRequestTimeout.n >= 1 /\ c.HubRequestTimeout.n <= 600
                /\ \/ c.NetInterfaceMaxSpeed = <<>>
                   \/ GetParsedNetInterfaceMaxSpeed(c.NetInterfaceMaxSpeed).err = Nil
                /\ c.JobMonitoring.SpoolDirPath # <<>>
                /\ IsAbs(goos, c.JobMonitoring.SpoolDirPath)
                /\ c.SystemUpdatesChecks.FetchTimeout < c.SystemUpdatesChecks.CheckInterval
                /\ c.SystemUpdatesChecks.CheckInterval >= 300
                /\ c.Updates.CheckInterval >= 600
                /\ c.OnHTTP5xxRetries.w = 0
                /\ c.OnHTTP5xxRetries.n >= 0 /\ c.OnHTTP5xxRetries.n <= 5

C16_Witness ==
    /\ pc = "done"
    /\ loadedFile # Nil
    /\ loadedFile[1].content = << IntLine("system_updates_checks.check_interval", 100),
                                  IntLine("on_http_5xx_retries", 9) >>
    /\ ret.err = Nil
    /\ ret.cfg # Nil
    /\ ret.cfg[1].SystemUpdatesChecks.CheckInterval = 300
    /\ ret.cfg[1].OnHTTP5xxRetries = [n |-> 5, w |-> 0]

\* ------------------------------- the pipeline under a changing environment

\* The agent is started again on the same path, in any environment.
RestartWithEnv ==
    /\ pc = "done"
    /\ runs < MaxRuns
    /\ env' \in SetupEnvs
    /\ prevRet' = ret
    /\ prevGen' = [called |-> genCalled, before |-> genBefore, env |-> env]
    /\ pc' = "start"
    /\ cfg' = NewConfig(goos)
    /\ cfg0' = NewConfig(goos)
    /\ mvc' = defaultMinValuableConfig
    /\ loadErr' = Nil
    /\ loadedFile' = Nil
    /\ genCalled' = FALSE
    /\ genBefore' = Nil
    /\ genErr' = Nil
    /\ validated' = FALSE
    /\ ret' = NoReturn
    /\ UNCHANGED <<speedRet, goos, fs, mvc0, force, handles, runs>>

EnvRunFileSystems ==
    {[dir |-> TRUE, file |-> Nil], [dir |-> TRUE, file |-> Some(File("none", <<>>))]}
    \cup {[dir |-> TRUE, file |-> Some(File("rw", c))] :
            c \in { <<>>,
                    << FloatLine("interval", 30) >>,
                    << StrLine("hub_url", "https://file.example") >>,
                    << StrLine("hub_user", "file-user"), FloatLine("heartbeat", 4) >>,
                    << GarbageLine >> }}

InitEnvRuns ==
    /\ goos \in GOOSValues
    /\ env \in SetupEnvs
    /\ fs \in EnvRunFileSystems
    /\ pc = "start"
    /\ cfg = NewConfig(goos)
    /\ cfg0 = NewConfig(goos)
    /\ Idle

NextEnvRuns ==
    \/ SetupLoad
    \/ SetupBootstrap
    \/ SetupLoadError
    \/ SetupValidate
    \/ RestartWithEnv

SpecEnvRuns == InitEnvRuns /\ [][NextEnvRuns]_vars

(* C18: when the config file exists, two successive runs of                *)
(* HandleAllConfigSetup on it return equal Configs (both none when the     *)
(* file is rejected), whatever the values or the presence of               *)
(* CAGENT_HUB_URL, CAGENT_HUB_USER and CAGENT_HUB_PASSWORD in each run.    *)
C18_EnvIndependent ==
    (/\ pc = "done"
     /\ runs >= 2
     /\ ~prevGen.called
     /\ loadedFile # Nil)
    => ret.cfg = prevRet.cfg

C18_Witness ==
    /\ pc = "done"
    /\ runs = 2
    /\ ~prevGen.called
    /\ loadedFile = Some(File("rw", << FloatLine("interval", 30) >>))
    /\ prevGen.env = NoEnv
    /\ env["CAGENT_HUB_URL"] = Some(HubTestURL)
    /\ env["CAGENT_HUB_USER"] = Some("agent")
    /\ ret.cfg # Nil
    /\ ret.cfg = prevRet.cfg
    /\ ret.cfg[1].MinValuableConfig.HubURL = ""
    /\ ret.cfg[1].Interval = 30

\* ------------------------------------ the two writers of the config file

SaveFileSystems ==
    {[dir |-> d, file |-> Nil] : d \in BOOLEAN}
    \cup {[dir |-> TRUE, file |-> Some(f)] :
            f \in ExternalFiles \cup { File("rw", << FloatLine("interval", 30) >>),
                                       File("none", <<>>) }}

InitSave ==
    /\ goos \in GOOSValues
    /\ env \in SetupEnvs
    /\ fs \in SaveFileSystems
    /\ pc = "call"
    /\ cfg = NewConfig(goos)
    /\ cfg0 = NewConfig(goos)
    /\ Idle

\* SaveConfigFile(NewMinimumConfig(), configFilePath)
SaveCall ==
    /\ pc = "call"
    /\ \E fault \in Faults \ {"mkdir"} :
         LET m == NewMinimumConfig(env, goos)
             g == SaveConfigFile(m, fs, fault)
         IN /\ mvc' = m
            /\ fs' = g.fs
            /\ genErr' = g.err
            /\ handles' = handles + g.leaked
    /\ genBefore' = fs.file
    /\ pc' = "saved"
    /\ UNCHANGED <<speedRet, prevGen, goos, env, cfg, cfg0, mvc0, force, loadErr,
                   loadedFile, genCalled, validated, ret, prevRet, runs>>

\* GenerateDefaultConfigFile(NewMinimumConfig(), configFilePath)
GenerateCall ==
    /\ pc = "call"
    /\ \E fault \in Faults :
         LET m == NewMinimumConfig(env, goos)
             g == GenerateDefaultConfigFile(m, fs, fault)
         IN /\ mvc' = m
            /\ fs' = g.fs
            /\ genErr' = g.err
            /\ handles' = handles + g.leaked
    /\ genBefore' = fs.file
    /\ genCalled' = TRUE
    /\ pc' = "generated"
    /\ UNCHANGED <<speedRet, prevGen, goos, env, cfg, cfg0, mvc0, force, loadErr,
                   loadedFile, validated, ret, prevRet, runs>>

NextSave ==
    \/ SaveCall
    \/ GenerateCall

SpecSave == InitSave /\ [][NextSave]_vars

(* C19: after SaveConfigFile or GenerateDefaultConfigFile has returned     *)
(* without an error, the file at configFilePath holds exactly the          *)
(* auto-generated header followed by the encoding of the value given,      *)
(* whatever it held before the call, a longer file included.               *)
C19_FileIsHeaderThenEncoding ==
    (pc \in {"saved", "generated"} /\ genErr = Nil)
    => /\ fs.file # Nil
       /\ fs.file[1].content = configAutogeneratedHeadline \o EncodeMinValuableConfig(mvc)

====
